---------------------------- MODULE Spec2Model ----------------------------
(***************************************************************************)
(* A model of the beatmap text parser (app/utils/osu_parser.py) and of the *)
(* archive processor (app/utils/osz_processor.py).                         *)
(*                                                                         *)
(* Text is modelled by its tokens.  A token is what stands between two     *)
(* separators of a line; it carries its text (s), whether the text is      *)
(* wrapped in double quotes (q), and the lexical class Python's int() and  *)
(* float() see in it (t, with the number in v):                            *)
(*   "int"  a decimal integer literal, v its value                         *)
(*   "dec"  a decimal literal with a fraction, v its value in tenths       *)
(*   "inf"  a literal float() reads as infinity ("inf", "1e999")           *)
(*   "nan"  a literal float() reads as not-a-number                        *)
(*   "str"  anything else (int() and float() raise ValueError)             *)
(* A float is [k, v]: k = "fin" with v the value in tenths, or "inf",      *)
(* or "nan".  A quotient of floats is an exact fraction [num, den] in      *)
(* lowest terms.                                                           *)
(***************************************************************************)
EXTENDS Integers, Sequences, FiniteSets, TLC

VARIABLES
    \* ---- OsuFileParser.parse_content
    content,          \* the lines of the text handed to parse_content
    pc,               \* "idle" | "line" | "derive" | "done"
    pos,              \* index of the next line of the for loop
    current_section,  \* self.current_section
    data,             \* self.data, an OsuMapData
    outcome,          \* "none" | "returned" | "raised": how parse_content ended
    warned,           \* line numbers parse_content printed a warning for
    derived_runs,     \* how often _calculate_derived_info ran in this call
    parsed_before,    \* the texts of the earlier parse_content calls on this parser
    data_obj,         \* which OsuMapData object self.data refers to
    returned,         \* the records the calls returned: [obj, value at the return]
    \* ---- OszProcessor.process_osz_bytes / process_osz_file / validate_osz
    archive,          \* the input: [container, members, bytes, name]
    entry,            \* "bytes" | "file": which entry point was called
    ppc,              \* "start" | "extract" | "walk" | "finish" | "returned" | "raised"
    workdir,          \* the files in the temporary directory (while it exists)
    tmp_exists,       \* whether the temporary directory exists
    todo,             \* files of the walk (rglob) not yet visited
    mapset,           \* the OszMapset under construction (a local of the call)
    ret,              \* what the call returned: [kind |-> "none" | "mapset", ...]
    err,              \* the exception the call raised, "" when none
    printed,          \* warnings the processor printed: <<kind, filename>>
    validated,        \* whether validate_osz was called on the returned mapset
    problems,         \* the list validate_osz returned
    \* ---- several calls of the processor in flight at once
    calls,            \* by caller: the input and the locals of its call
    areas             \* the temporary directories of the file system, by name

pvars == <<content, pc, pos, current_section, data, outcome, warned, derived_runs,
           parsed_before, data_obj, returned>>
zvars == <<archive, entry, ppc, workdir, tmp_exists, todo, mapset, ret, err,
           printed, validated, problems>>
cvars == <<calls, areas>>
vars == <<content, pc, pos, current_section, data, outcome, warned, derived_runs,
          parsed_before, data_obj, returned,
          archive, entry, ppc, workdir, tmp_exists, todo, mapset, ret, err,
          printed, validated, problems, calls, areas>>

-----------------------------------------------------------------------------
(* Bounds of the model. *)

MaxLines == 4
MaxTimingLines == 3
MaxHitLines == 2
MaxObjLines == 3
MaxReparseLines == 2
MaxCalls == 2
MaxCharts == 3
MaxSectionLines == 3
MaxMembers == 3
MaxCompanions == 1

-----------------------------------------------------------------------------
(* Tokens and Python's conversions. *)

IntTok(n) == [t |-> "int", v |-> n, s |-> ToString(n), q |-> FALSE]
DecTok(tenths, text) == [t |-> "dec", v |-> tenths, s |-> text, q |-> FALSE]
InfTok == [t |-> "inf", v |-> 0, s |-> "inf", q |-> FALSE]
NanTok == [t |-> "nan", v |-> 0, s |-> "nan", q |-> FALSE]
StrTok(text) == [t |-> "str", v |-> 0, s |-> text, q |-> FALSE]
QuotedTok(text) == [t |-> "str", v |-> 0, s |-> text, q |-> TRUE]

Fin(tenths) == [k |-> "fin", v |-> tenths]
FInf == [k |-> "inf", v |-> 0]
FNan == [k |-> "nan", v |-> 0]

\* The text of a token as it stands in the line.
RawText(tok) == IF tok.q THEN "\"" \o tok.s \o "\"" ELSE tok.s

\* str.strip('"') of a token's text.
StripQuotes(tok) == tok.s

RECURSIVE JoinFrom(_, _, _)
JoinFrom(toks, i, j) ==
    IF i > j THEN ""
    ELSE IF i = j THEN RawText(toks[i])
    ELSE RawText(toks[i]) \o "," \o JoinFrom(toks, i + 1, j)

\* ",".join(parts[i..j]): the text of a run of comma-separated tokens.
Join(toks, i, j) == JoinFrom(toks, i, j)

\* int(text): [ok, v]; not ok stands for ValueError.
PyInt(tok) == [ok |-> tok.t = "int" /\ ~tok.q, v |-> tok.v]

\* float(text): [ok, x]; not ok stands for ValueError.
PyFloat(tok) ==
    IF tok.q THEN [ok |-> FALSE, x |-> FNan]
    ELSE CASE tok.t = "int" -> [ok |-> TRUE, x |-> Fin(tok.v * 10)]
           [] tok.t = "dec" -> [ok |-> TRUE, x |-> Fin(tok.v)]
           [] tok.t = "inf" -> [ok |-> TRUE, x |-> FInf]
           [] tok.t = "nan" -> [ok |-> TRUE, x |-> FNan]
           [] OTHER -> [ok |-> FALSE, x |-> FNan]

\* int(x) of a float: truncation toward zero; OverflowError for an infinity,
\* ValueError for a nan.
FloatToInt(x) ==
    CASE x.k = "inf" -> [ok |-> FALSE, exc |-> "OverflowError", v |-> 0]
      [] x.k = "nan" -> [ok |-> FALSE, exc |-> "ValueError", v |-> 0]
      [] OTHER -> [ok |-> TRUE, exc |-> "",
                   v |-> IF x.v >= 0 THEN x.v \div 10 ELSE -((-x.v) \div 10)]

\* x > 0 on floats.
FloatPositive(x) == x.k = "inf" \/ (x.k = "fin" /\ x.v > 0)

RECURSIVE GCD(_, _)
GCD(a, b) == IF b = 0 THEN a ELSE GCD(b, a % b)

\* Faulty variant: the minute taken as 60 (seconds), not 60000 (milliseconds).
Div60000Seconds(x) ==
    IF x.k = "inf" THEN [num |-> 0, den |-> 1]
    ELSE LET g == GCD(600, x.v)
         IN [num |-> 600 \div g, den |-> x.v \div g]

\* 60000 / x for a float x > 0, as an exact fraction.
Div60000(x) ==
    IF x.k = "inf" THEN [num |-> 0, den |-> 1]
    ELSE LET g == GCD(600000, x.v)
         IN [num |-> 600000 \div g, den |-> x.v \div g]

-----------------------------------------------------------------------------
(* Lines.  A line (already stripped) is [k, name, f]:                      *)
(*   "blank"    the empty line                                             *)
(*   "comment"  a line beginning //                                        *)
(*   "version"  "osu file format v" + f[1]                                 *)
(*   "header"   "[" + name + "]"                                           *)
(*   "kv"       name + ":" + the comma-separated tokens f                  *)
(*   "csv"      the comma-separated tokens f, none holding a colon         *)

BlankLine == [k |-> "blank", name |-> "", f |-> <<>>]
CommentLine == [k |-> "comment", name |-> "", f |-> <<>>]
VersionLine(tok) == [k |-> "version", name |-> "", f |-> <<tok>>]
HeaderLine(n) == [k |-> "header", name |-> n, f |-> <<>>]
KvLine(key, toks) == [k |-> "kv", name |-> key, f |-> toks]
CsvLine(toks) == [k |-> "csv", name |-> "", f |-> toks]

\* line.split(","): a key-value line's first part holds the key and the colon.
Parts(line) ==
    IF line.k = "kv"
    THEN <<StrTok(line.name \o ":" \o RawText(line.f[1]))>> \o Tail(line.f)
    ELSE line.f


-----------------------------------------------------------------------------
(* OsuMapData: the dataclass defaults. *)

DefaultData ==
    [osu_file_format |-> 14,
     filename |-> "", md5 |-> "",
     audio_filename |-> "", audio_lead_in |-> 0, audio_hash |-> "",
     preview_time |-> -1, countdown |-> 1, sample_set |-> "Normal",
     stack_leniency |-> Fin(7), mode |-> 0,
     letterbox_in_breaks |-> FALSE, story_fire_in_front |-> TRUE,
     use_skin_sprites |-> FALSE, always_show_playfield |-> FALSE,
     overlay_position |-> "NoChange", skin_preference |-> "",
     epilepsy_warning |-> FALSE, countdown_offset |-> 0,
     special_style |-> FALSE, widescreen_storyboard |-> FALSE,
     samples_match_playback_rate |-> FALSE,
     bookmarks |-> <<>>, distance_spacing |-> Fin(10), beat_divisor |-> 4,
     grid_size |-> 4, timeline_zoom |-> Fin(10),
     title |-> "", title_unicode |-> "", artist |-> "", artist_unicode |-> "",
     creator |-> "", version |-> "", source |-> "", tags |-> "",
     beatmap_id |-> 0, beatmapset_id |-> 0,
     hp_drain_rate |-> Fin(50), circle_size |-> Fin(50),
     overall_difficulty |-> Fin(50), approach_rate |-> Fin(50),
     slider_multiplier |-> Fin(14), slider_tick_rate |-> Fin(10),
     background_filename |-> "", break_periods |-> <<>>,
     timing_points |-> <<>>, combo_colours |-> <<>>, hit_objects |-> <<>>,
     total_length |-> 0, hit_length |-> 0, max_combo |-> 0,
     bpm |-> [num |-> 0, den |-> 1]]

-----------------------------------------------------------------------------
(* The section handlers.  Each takes the record and a line and gives        *)
(* [data, exc]: the record after the line and the exception that escaped    *)
(* the handler ("" when none did).                                          *)

Ok(d) == [data |-> d, exc |-> ""]
Raise(d, e) == [data |-> d, exc |-> e]

\* _parse_key_value: the key, "" when the line holds no colon.
KeyOf(line) == IF line.k = "kv" THEN line.name ELSE ""

\* _parse_key_value: the value, as its comma-separated tokens.
ValueOf(line) == IF line.k = "kv" THEN line.f ELSE <<StrTok("")>>

\* The value as one text.
ValueText(toks) == Join(toks, 1, Len(toks))

\* int(value) and float(value) of a whole value.
ValueInt(toks) ==
    IF Len(toks) = 1 THEN PyInt(toks[1]) ELSE [ok |-> FALSE, v |-> 0]

ValueFloat(toks) ==
    IF Len(toks) = 1 THEN PyFloat(toks[1]) ELSE [ok |-> FALSE, x |-> FNan]

\* Faulty variant: a failed conversion puts the field back to 0.
AssignZeroOnFail(d, fld, conv, toks) ==
    CASE conv = "str" -> [d EXCEPT ![fld] = ValueText(toks)]
      [] conv = "int" ->
            IF ValueInt(toks).ok THEN [d EXCEPT ![fld] = ValueInt(toks).v]
            ELSE [d EXCEPT ![fld] = 0]
      [] conv = "float" ->
            IF ValueFloat(toks).ok THEN [d EXCEPT ![fld] = ValueFloat(toks).x]
            ELSE [d EXCEPT ![fld] = Fin(0)]
      [] conv = "bool" -> [d EXCEPT ![fld] = (ValueText(toks) = "1")]
      [] OTHER -> d

\* One branch of a handler's if/elif chain: the assignment of a field from
\* a value by the named conversion; a failed conversion (ValueError, caught
\* by the handler) leaves the record as it was.
Assign(d, fld, conv, toks) ==
    CASE conv = "str" -> [d EXCEPT ![fld] = ValueText(toks)]
      [] conv = "int" ->
            IF ValueInt(toks).ok THEN [d EXCEPT ![fld] = ValueInt(toks).v] ELSE d
      [] conv = "float" ->
            IF ValueFloat(toks).ok THEN [d EXCEPT ![fld] = ValueFloat(toks).x] ELSE d
      [] conv = "bool" -> [d EXCEPT ![fld] = (ValueText(toks) = "1")]
      [] OTHER -> d

GeneralKeys ==
    [AudioFilename |-> <<"audio_filename", "str">>,
     AudioLeadIn |-> <<"audio_lead_in", "int">>,
     AudioHash |-> <<"audio_hash", "str">>,
     PreviewTime |-> <<"preview_time", "int">>,
     Countdown |-> <<"countdown", "int">>,
     SampleSet |-> <<"sample_set", "str">>,
     StackLeniency |-> <<"stack_leniency", "float">>,
     Mode |-> <<"mode", "int">>,
     LetterboxInBreaks |-> <<"letterbox_in_breaks", "bool">>,
     StoryFireInFront |-> <<"story_fire_in_front", "bool">>,
     UseSkinSprites |-> <<"use_skin_sprites", "bool">>,
     AlwaysShowPlayfield |-> <<"always_show_playfield", "bool">>,
     OverlayPosition |-> <<"overlay_position", "str">>,
     SkinPreference |-> <<"skin_preference", "str">>,
     EpilepsyWarning |-> <<"epilepsy_warning", "bool">>,
     CountdownOffset |-> <<"countdown_offset", "int">>,
     SpecialStyle |-> <<"special_style", "bool">>,
     WidescreenStoryboard |-> <<"widescreen_storyboard", "bool">>,
     SamplesMatchPlaybackRate |-> <<"samples_match_playback_rate", "bool">>]

_parse_general(d, line) ==
    LET key == KeyOf(line)
    IN IF key = "" THEN Ok(d)
       ELSE IF key \in DOMAIN GeneralKeys
            THEN Ok(Assign(d, GeneralKeys[key][1], GeneralKeys[key][2], ValueOf(line)))
            ELSE Ok(d)

\* [int(x.strip()) for x in value.split(",")]
Bookmarks(toks) ==
    [ok |-> \A i \in 1..Len(toks) : PyInt(toks[i]).ok,
     v |-> [i \in 1..Len(toks) |-> toks[i].v]]

EditorKeys ==
    [DistanceSpacing |-> <<"distance_spacing", "float">>,
     BeatDivisor |-> <<"beat_divisor", "int">>,
     GridSize |-> <<"grid_size", "int">>,
     TimelineZoom |-> <<"timeline_zoom", "float">>]

_parse_editor(d, line) ==
    LET key == KeyOf(line)
        toks == ValueOf(line)
    IN IF key = "" THEN Ok(d)
       ELSE IF key = "Bookmarks"
            THEN IF ValueText(toks) # "" /\ Bookmarks(toks).ok
                 THEN Ok([d EXCEPT !.bookmarks = Bookmarks(toks).v])
                 ELSE Ok(d)
       ELSE IF key \in DOMAIN EditorKeys
            THEN Ok(Assign(d, EditorKeys[key][1], EditorKeys[key][2], toks))
            ELSE Ok(d)

MetadataKeys ==
    [Title |-> <<"title", "str">>,
     TitleUnicode |-> <<"title_unicode", "str">>,
     Artist |-> <<"artist", "str">>,
     ArtistUnicode |-> <<"artist_unicode", "str">>,
     Creator |-> <<"creator", "str">>,
     Version |-> <<"version", "str">>,
     Source |-> <<"source", "str">>,
     Tags |-> <<"tags", "str">>,
     BeatmapID |-> <<"beatmap_id", "int">>,
     BeatmapSetID |-> <<"beatmapset_id", "int">>]

_parse_metadata(d, line) ==
    LET key == KeyOf(line)
    IN IF key = "" THEN Ok(d)
       ELSE IF key \in DOMAIN MetadataKeys
            THEN Ok(Assign(d, MetadataKeys[key][1], MetadataKeys[key][2], ValueOf(line)))
            ELSE Ok(d)

DifficultyKeys ==
    [HPDrainRate |-> <<"hp_drain_rate", "float">>,
     CircleSize |-> <<"circle_size", "float">>,
     OverallDifficulty |-> <<"overall_difficulty", "float">>,
     ApproachRate |-> <<"approach_rate", "float">>,
     SliderMultiplier |-> <<"slider_multiplier", "float">>,
     SliderTickRate |-> <<"slider_tick_rate", "float">>]

_parse_difficulty(d, line) ==
    LET key == KeyOf(line)
    IN IF key = "" THEN Ok(d)
       ELSE IF key \in DOMAIN DifficultyKeys
            THEN Ok(Assign(d, DifficultyKeys[key][1], DifficultyKeys[key][2], ValueOf(line)))
            ELSE Ok(d)

_parse_events(d, line) ==
    LET parts == Parts(line)
    IN IF Len(parts) >= 3 /\ RawText(parts[1]) = "0" /\ RawText(parts[2]) = "0"
       THEN Ok([d EXCEPT !.background_filename = StripQuotes(parts[3])])
       ELSE IF Len(parts) >= 2 /\ RawText(parts[1]) = "2"
            THEN IF Len(parts) >= 3 /\ PyInt(parts[2]).ok /\ PyInt(parts[3]).ok
                 THEN Ok([d EXCEPT !.break_periods =
                             Append(@, <<parts[2].v, parts[3].v>>)])
                 ELSE Ok(d)
            ELSE Ok(d)

\* Faulty variant: a field the line does not have is taken as 0.
OptIntZero(parts, i, default) ==
    IF Len(parts) >= i THEN PyInt(parts[i]) ELSE [ok |-> TRUE, v |-> 0]

\* A field of a timing-point line past the second: int(parts[i]) when the
\* line has it, the default otherwise.
OptInt(parts, i, default) ==
    IF Len(parts) >= i THEN PyInt(parts[i]) ELSE [ok |-> TRUE, v |-> default]

_parse_timing_points(d, line) ==
    LET parts == Parts(line)
    IN IF Len(parts) < 2 THEN Ok(d)
       ELSE LET f1 == PyFloat(parts[1])
                time == FloatToInt(f1.x)
                beat_length == PyFloat(parts[2])
                meter == OptInt(parts, 3, 4)
                sample_set == OptInt(parts, 4, 0)
                sample_index == OptInt(parts, 5, 0)
                volume == OptInt(parts, 6, 100)
                uninherited == IF Len(parts) >= 7 THEN RawText(parts[7]) = "1" ELSE TRUE
                effects == OptInt(parts, 8, 0)
            IN IF ~f1.ok THEN Ok(d)
               ELSE IF ~time.ok
                    THEN IF time.exc = "OverflowError"
                         THEN Raise(d, "OverflowError")  \* not in the except clause
                         ELSE Ok(d)
               ELSE IF /\ beat_length.ok /\ meter.ok /\ sample_set.ok
                       /\ sample_index.ok /\ volume.ok /\ effects.ok
                    THEN Ok([d EXCEPT !.timing_points = Append(@,
                               [time |-> time.v, beat_length |-> beat_length.x,
                                meter |-> meter.v, sample_set |-> sample_set.v,
                                sample_index |-> sample_index.v, volume |-> volume.v,
                                uninherited |-> uninherited, effects |-> effects.v])])
                    ELSE Ok(d)

\* The keys of the model that begin with "Combo".
ComboKeys == {"Combo1", "Combo2", "Combo3", "Combo4"}

_parse_colours(d, line) ==
    LET key == KeyOf(line)
        toks == ValueOf(line)
    IN IF key \in ComboKeys /\ ValueText(toks) # ""
       THEN IF (\A i \in 1..Len(toks) : PyInt(toks[i]).ok) /\ Len(toks) = 3
            THEN Ok([d EXCEPT !.combo_colours =
                        Append(@, <<toks[1].v, toks[2].v, toks[3].v>>)])
            ELSE Ok(d)
       ELSE Ok(d)

\* Faulty variant: no test of the number of fields, and an except clause that
\* catches ValueError only, so that the IndexError of a short line escapes.
HitObjectsNoLengthTest(d, line) ==
    LET parts == Parts(line)
        n == Len(parts)
    IN IF n < 5 THEN Raise(d, "IndexError")
       ELSE IF \A i \in 1..5 : PyInt(parts[i]).ok
            THEN Ok([d EXCEPT !.hit_objects = Append(@,
                       [x |-> parts[1].v, y |-> parts[2].v, time |-> parts[3].v,
                        type |-> parts[4].v, hit_sound |-> parts[5].v,
                        object_params |-> IF n > 6 THEN Join(parts, 6, n - 1) ELSE "",
                        hit_sample |-> IF n > 5 THEN RawText(parts[n]) ELSE ""])])
            ELSE Ok(d)

_parse_hit_objects(d, line) ==
    LET parts == Parts(line)
        n == Len(parts)
    IN IF n < 5 THEN Ok(d)
       ELSE IF \A i \in 1..5 : PyInt(parts[i]).ok
            THEN Ok([d EXCEPT !.hit_objects = Append(@,
                       [x |-> parts[1].v, y |-> parts[2].v, time |-> parts[3].v,
                        type |-> parts[4].v, hit_sound |-> parts[5].v,
                        object_params |-> IF n > 6 THEN Join(parts, 6, n - 1) ELSE "",
                        hit_sample |-> IF n > 5 THEN RawText(parts[n]) ELSE ""])])
            ELSE Ok(d)

-----------------------------------------------------------------------------
(* _parse_line: the parser's state is st = [section, data]; the result adds *)
(* exc, the exception that escaped ("" when none).                          *)

Step(sec, r) == [section |-> sec, data |-> r.data, exc |-> r.exc]

\* Faulty variant: a line outside every recognized section goes to the General handler.
DispatchFallsToGeneral(sec, d, line) ==
    CASE sec = "Editor" -> _parse_editor(d, line)
      [] sec = "Metadata" -> _parse_metadata(d, line)
      [] sec = "Difficulty" -> _parse_difficulty(d, line)
      [] sec = "Events" -> _parse_events(d, line)
      [] sec = "TimingPoints" -> _parse_timing_points(d, line)
      [] sec = "Colours" -> _parse_colours(d, line)
      [] sec = "HitObjects" -> _parse_hit_objects(d, line)
      [] OTHER -> _parse_general(d, line)

\* The branch of the section dispatch: the handler of the current section.
Dispatch(sec, d, line) ==
    CASE sec = "General" -> _parse_general(d, line)
      [] sec = "Editor" -> _parse_editor(d, line)
      [] sec = "Metadata" -> _parse_metadata(d, line)
      [] sec = "Difficulty" -> _parse_difficulty(d, line)
      [] sec = "Events" -> _parse_events(d, line)
      [] sec = "TimingPoints" -> _parse_timing_points(d, line)
      [] sec = "Colours" -> _parse_colours(d, line)
      [] sec = "HitObjects" -> _parse_hit_objects(d, line)
      [] OTHER -> Ok(d)

\* Faulty variant: the number is stored whether or not it parsed.
VersionOfUnchecked(d, line) == [d EXCEPT !.osu_file_format = line.f[1].v]

\* The version line: int(line.split("v")[1]), a ValueError passed over.
VersionOf(d, line) ==
    IF PyInt(line.f[1]).ok
    THEN [d EXCEPT !.osu_file_format = line.f[1].v]
    ELSE d

_parse_line(st, line) ==
    IF line.k \in {"blank", "comment"} THEN Step(st.section, Ok(st.data))
    ELSE IF line.k = "version" THEN Step(st.section, Ok(VersionOf(st.data, line)))
    ELSE IF line.k = "header" THEN Step(line.name, Ok(st.data))
    ELSE Step(st.section, Dispatch(st.section, st.data, line))

-----------------------------------------------------------------------------
(* _calculate_derived_info *)

SetMin(S) == CHOOSE x \in S : \A y \in S : x <= y
SetMax(S) == CHOOSE x \in S : \A y \in S : x >= y
Max(a, b) == IF a >= b THEN a ELSE b

Times(hos) == {hos[i].time : i \in 1..Len(hos)}

\* obj_type & m, for m a power of two: whether the bit is set.
BitSet(n, m) == (n \div m) % 2 = 1

\* Faulty variant: one combo for each of the three bits that is set.
ComboOfPerBit(obj) ==
    (IF BitSet(obj.type, 1) THEN 1 ELSE 0)
    + (IF BitSet(obj.type, 2) THEN 1 ELSE 0)
    + (IF BitSet(obj.type, 8) THEN 1 ELSE 0)

\* The combo an object adds.
ComboOf(obj) ==
    IF BitSet(obj.type, 1) THEN 1
    ELSE IF BitSet(obj.type, 2) THEN 1
    ELSE IF BitSet(obj.type, 8) THEN 1
    ELSE 0

RECURSIVE ComboCount(_, _)
ComboCount(hos, i) ==
    IF i > Len(hos) THEN 0 ELSE ComboOf(hos[i]) + ComboCount(hos, i + 1)

RECURSIVE BpmFrom(_, _, _)
BpmFrom(tps, i, bpm) ==
    IF i > Len(tps) THEN bpm
    ELSE IF tps[i].uninherited /\ FloatPositive(tps[i].beat_length)
         THEN Div60000(tps[i].beat_length)   \* break
         ELSE BpmFrom(tps, i + 1, bpm)

RECURSIVE BpmLastFrom(_, _, _)
BpmLastFrom(tps, i, bpm) ==
    IF i > Len(tps) THEN bpm
    ELSE IF tps[i].uninherited /\ FloatPositive(tps[i].beat_length)
         THEN BpmLastFrom(tps, i + 1, Div60000(tps[i].beat_length))
         ELSE BpmLastFrom(tps, i + 1, bpm)

\* Faulty variant: the loop without its break, so that the last qualifying point wins.
CalcBpmNoBreak(tps, bpm) == BpmLastFrom(tps, 1, bpm)

\* The loop over the timing points: the bpm after it.
CalcBpm(tps, bpm) == BpmFrom(tps, 1, bpm)

\* Faulty variant: a preview time of 0 taken as set (>= for >).
TotalLengthFromZero(last_object_time, preview_time) ==
    IF preview_time >= 0
    THEN Max(last_object_time + 2000, preview_time + 30000)
    ELSE last_object_time + 2000

\* The total length, from the last object's time and the preview time.
TotalLength(last_object_time, preview_time) ==
    IF preview_time > 0
    THEN Max(last_object_time + 2000, preview_time + 30000)
    ELSE last_object_time + 2000

\* Whether the computation is skipped.
NoObjects(d) == d.hit_objects = <<>>

\* Faulty variant: the early return placed after the bpm is computed.
DerivedInfoBpmFirst(d) ==
    IF NoObjects(d) THEN [d EXCEPT !.bpm = CalcBpm(d.timing_points, d.bpm)]
    ELSE LET first_object_time == SetMin(Times(d.hit_objects))
             last_object_time == SetMax(Times(d.hit_objects))
         IN [d EXCEPT !.hit_length = last_object_time - first_object_time,
                      !.total_length = TotalLength(last_object_time, d.preview_time),
                      !.max_combo = ComboCount(d.hit_objects, 1),
                      !.bpm = CalcBpm(d.timing_points, d.bpm)]

_calculate_derived_info(d) ==
    IF NoObjects(d) THEN d
    ELSE LET first_object_time == SetMin(Times(d.hit_objects))
             last_object_time == SetMax(Times(d.hit_objects))
         IN [d EXCEPT !.hit_length = last_object_time - first_object_time,
                      !.total_length = TotalLength(last_object_time, d.preview_time),
                      !.max_combo = ComboCount(d.hit_objects, 1),
                      !.bpm = CalcBpm(d.timing_points, d.bpm)]

-----------------------------------------------------------------------------
(* The inputs of the parser. *)

SeqsUpTo(S, n) == UNION {[1..k -> S] : k \in 0..n}

\* Lines that exercise the line loop and the section state.
CoreLines ==
    {CommentLine,
     VersionLine(IntTok(9)), VersionLine(IntTok(12)), VersionLine(StrTok("x")),
     HeaderLine("General"), HeaderLine("Foo"), HeaderLine("TimingPoints"),
     KvLine("Mode", <<IntTok(1)>>), KvLine("Mode", <<StrTok("x")>>),
     CsvLine(<<IntTok(0), IntTok(500)>>), CsvLine(<<InfTok, IntTok(500)>>)}

\* Timing-point lines: uninherited by default or by flag, inherited, and
\* with a beat length that is zero or negative.
TimingLines ==
    {CsvLine(<<IntTok(0), IntTok(500)>>),
     CsvLine(<<IntTok(0), IntTok(250)>>),
     CsvLine(<<IntTok(0), IntTok(500), IntTok(4), IntTok(0), IntTok(0),
               IntTok(100), IntTok(0)>>),
     CsvLine(<<IntTok(0), IntTok(-100), IntTok(4), IntTok(0), IntTok(0),
               IntTok(100), IntTok(1)>>),
     CsvLine(<<IntTok(0), IntTok(0)>>)}

HitLines ==
    {CsvLine(<<IntTok(256), IntTok(192), IntTok(1000), IntTok(1), IntTok(0)>>),
     CsvLine(<<IntTok(256), IntTok(192), IntTok(3000), IntTok(2), IntTok(0)>>),
     CsvLine(<<IntTok(256), IntTok(192)>>)}

\* Charts made of a TimingPoints section and a HitObjects section.
DerivedContents ==
    {<<HeaderLine("TimingPoints")>> \o tl \o <<HeaderLine("HitObjects")>> \o hl :
        tl \in SeqsUpTo(TimingLines, MaxTimingLines),
        hl \in SeqsUpTo(HitLines, MaxHitLines)}

\* A hit-object line x,y,time,type,hitSound.
ObjLine(time, type) ==
    CsvLine(<<IntTok(256), IntTok(192), IntTok(time), IntTok(type), IntTok(0)>>)

\* Hit objects of every kind of type bitmask, at times in no order, and a
\* line too short to be an object.
ObjLines ==
    {ObjLine(1000, 1), ObjLine(3000, 2), ObjLine(2000, 8), ObjLine(1500, 3),
     ObjLine(500, 4), ObjLine(2500, 128),
     CsvLine(<<IntTok(256), IntTok(192)>>)}

\* What stands before the [HitObjects] header: nothing, a preview time
\* (late, early, zero, negative), or a timing point.
ObjPrefixes ==
    {<<>>,
     <<HeaderLine("General"), KvLine("PreviewTime", <<IntTok(5000)>>)>>,
     <<HeaderLine("General"), KvLine("PreviewTime", <<IntTok(100)>>)>>,
     <<HeaderLine("General"), KvLine("PreviewTime", <<IntTok(0)>>)>>,
     <<HeaderLine("General"), KvLine("PreviewTime", <<IntTok(-5)>>)>>,
     <<HeaderLine("TimingPoints"), CsvLine(<<IntTok(0), IntTok(500)>>)>>}

\* What stands after the hit objects: nothing, an unknown section, or a
\* timing point.
ObjSuffixes ==
    {<<>>,
     <<HeaderLine("Foo"), KvLine("Mode", <<IntTok(1)>>)>>,
     <<HeaderLine("TimingPoints"), CsvLine(<<IntTok(0), IntTok(250)>>)>>}

\* Charts made around a HitObjects section.
ObjContents ==
    {pre \o <<HeaderLine("HitObjects")>> \o ol \o suf :
        pre \in ObjPrefixes,
        ol \in SeqsUpTo(ObjLines, MaxObjLines),
        suf \in ObjSuffixes}

\* Lines of one section, by section: values that convert and values that
\* do not, known and unknown keys, lines with fewer and with more fields.
SectionLines ==
    [General |->
        {KvLine("Mode", <<IntTok(1)>>), KvLine("Mode", <<StrTok("x")>>),
         KvLine("PreviewTime", <<IntTok(5000)>>),
         KvLine("PreviewTime", <<DecTok(15, "1.5")>>),
         KvLine("StackLeniency", <<DecTok(5, "0.5")>>),
         KvLine("StackLeniency", <<StrTok("x")>>),
         KvLine("Foo", <<IntTok(1)>>)},
     Editor |->
        {KvLine("BeatDivisor", <<IntTok(8)>>), KvLine("BeatDivisor", <<StrTok("x")>>),
         KvLine("Bookmarks", <<IntTok(1), IntTok(2)>>),
         KvLine("Bookmarks", <<IntTok(3), StrTok("x")>>),
         KvLine("DistanceSpacing", <<StrTok("x")>>)},
     Metadata |->
        {KvLine("BeatmapID", <<IntTok(5)>>), KvLine("BeatmapID", <<StrTok("x")>>),
         KvLine("Title", <<StrTok("T")>>)},
     Difficulty |->
        {KvLine("CircleSize", <<IntTok(4)>>), KvLine("CircleSize", <<StrTok("x")>>),
         KvLine("ApproachRate", <<DecTok(95, "9.5")>>)},
     TimingPoints |->
        {CsvLine(<<IntTok(1000), IntTok(500)>>),
         CsvLine(<<DecTok(10007, "1000.7"), DecTok(3333, "333.3")>>),
         CsvLine(<<DecTok(-5, "-0.5"), IntTok(500)>>),
         CsvLine(<<IntTok(0), IntTok(500), IntTok(3)>>),
         CsvLine(<<IntTok(0), IntTok(500), IntTok(3), IntTok(1), IntTok(2), IntTok(50)>>),
         CsvLine(<<IntTok(0), IntTok(-100), IntTok(4), IntTok(0), IntTok(0),
                   IntTok(100), IntTok(0)>>),
         CsvLine(<<IntTok(0), IntTok(500), IntTok(4), IntTok(0), IntTok(0),
                   IntTok(100), IntTok(1), IntTok(1)>>),
         CsvLine(<<IntTok(1000)>>),
         CsvLine(<<IntTok(0), IntTok(500), StrTok("x")>>)},
     HitObjects |->
        {ObjLine(1000, 1), ObjLine(3000, 2),
         CsvLine(<<IntTok(256), IntTok(192), IntTok(2000), IntTok(1)>>),
         CsvLine(<<IntTok(256), IntTok(192)>>),
         CsvLine(<<IntTok(256), IntTok(192), StrTok("x"), IntTok(1), IntTok(0)>>),
         CsvLine(<<IntTok(256), IntTok(192), DecTok(15005, "1500.5"), IntTok(1),
                   IntTok(0)>>),
         CsvLine(<<IntTok(256), IntTok(192), IntTok(2500), IntTok(1), IntTok(0),
                   StrTok("0:0:0:0:")>>),
         CsvLine(<<IntTok(256), IntTok(192), IntTok(500), IntTok(2), IntTok(0),
                   StrTok("B|300:200"), IntTok(1), StrTok("0:0:0:0:")>>)}]

\* Texts of one header and lines of its section.
SectionContents ==
    UNION {{<<HeaderLine(sec)>> \o ls :
               ls \in SeqsUpTo(SectionLines[sec], MaxSectionLines)} :
           sec \in DOMAIN SectionLines}

-----------------------------------------------------------------------------
(* OsuFileParser: reset and parse_content. *)

\* Faulty variant: the line loop without its try/except.
OnLineErrorPropagate(exc) == "raise"

\* What the except clause of the line loop does with an exception that
\* escaped _parse_line: print the warning and go on with the next line.
OnLineError(exc) == "continue"

\* Faulty variant: reset clears the record it has instead of making a new one.
ReuseRecord(obj) == obj

\* OsuMapData(): a new object, none of those made before.
NewRecord(obj) == obj + 1

\* Faulty variant: a reset that makes a new record and keeps the section.
ResetDataOnly ==
    /\ current_section' = current_section
    /\ data' = DefaultData
    /\ data_obj' = NewRecord(data_obj)

\* reset(), as __init__ and parse_content call it.
reset ==
    /\ current_section' = ""
    /\ data' = DefaultData
    /\ data_obj' = NewRecord(data_obj)

\* parse_content up to the loop: reset and split the text in lines.
ParseCall ==
    /\ pc = "idle"
    /\ reset
    /\ pos' = 1
    /\ pc' = IF Len(content) = 0 THEN "derive" ELSE "line"
    /\ warned' = {}
    /\ derived_runs' = 0
    /\ outcome' = "none"
    /\ UNCHANGED <<content, parsed_before, returned, zvars, cvars>>

\* One turn of the line loop.
ParseLineStep ==
    /\ pc = "line"
    /\ pos <= Len(content)
    /\ LET r == _parse_line([section |-> current_section, data |-> data],
                            content[pos])
       IN /\ current_section' = r.section
          /\ data' = r.data
          /\ IF r.exc # "" /\ OnLineError(r.exc) # "continue"
             THEN /\ pc' = "done"
                  /\ outcome' = "raised"
                  /\ warned' = warned
             ELSE /\ pc' = IF pos = Len(content) THEN "derive" ELSE "line"
                  /\ outcome' = outcome
                  /\ warned' = IF r.exc # "" THEN warned \cup {pos} ELSE warned
    /\ pos' = pos + 1
    /\ UNCHANGED <<content, derived_runs, parsed_before, data_obj, returned, zvars, cvars>>

\* After the loop: the derived fields, and the return of self.data.
ParseFinish ==
    /\ pc = "derive"
    /\ data' = _calculate_derived_info(data)
    /\ derived_runs' = derived_runs + 1
    /\ pc' = "done"
    /\ outcome' = "returned"
    /\ returned' = Append(returned, [obj |-> data_obj, value |-> data'])
    /\ UNCHANGED <<content, pos, current_section, warned, parsed_before, data_obj, zvars, cvars>>

\* Texts for calls that follow one another on one parser.
ReparseLines ==
    {VersionLine(IntTok(9)), HeaderLine("HitObjects"), ObjLine(1000, 1)}

ReparseTexts == SeqsUpTo(ReparseLines, MaxReparseLines)

\* parse_content called again on a parser that has parsed before: the same
\* steps as the first call, on the state the earlier call left.  (parse_file
\* is reset() and then parse_content on the text of the file.)
ParseAgain ==
    /\ pc = "done"
    /\ Len(parsed_before) + 1 < MaxCalls
    /\ parsed_before' = Append(parsed_before, content)
    /\ \E c \in ReparseTexts :
          /\ content' = c
          /\ pc' = IF Len(c) = 0 THEN "derive" ELSE "line"
    /\ reset
    /\ pos' = 1
    /\ warned' = {}
    /\ derived_runs' = 0
    /\ outcome' = "none"
    /\ UNCHANGED <<returned, zvars, cvars>>

\* The parser after construction (__init__ calls reset), before any call.
ParserIdle ==
    /\ pc = "idle"
    /\ pos = 1
    /\ current_section = ""
    /\ data = DefaultData
    /\ outcome = "none"
    /\ warned = {}
    /\ derived_runs = 0
    /\ parsed_before = <<>>
    /\ data_obj = 1
    /\ returned = <<>>

NoArchive == [container |-> "ok", members |-> <<>>, bytes |-> 0, name |-> ""]
NoMapset == [kind |-> "none"]

\* No call of the processor in flight.
ConcurrentOff == calls = <<>> /\ areas = <<>>

\* The processor at rest.
ProcessorOff ==
    /\ archive = NoArchive
    /\ entry = "bytes"
    /\ ppc = "off"
    /\ workdir = {}
    /\ tmp_exists = FALSE
    /\ todo = {}
    /\ mapset = NoMapset
    /\ ret = NoMapset
    /\ err = ""
    /\ printed = {}
    /\ validated = FALSE
    /\ problems = <<>>

InitParse == content \in SeqsUpTo(CoreLines, MaxLines) /\ ParserIdle /\ ProcessorOff /\ ConcurrentOff
InitDerived == content \in DerivedContents /\ ParserIdle /\ ProcessorOff /\ ConcurrentOff

InitObjects == content \in ObjContents /\ ParserIdle /\ ProcessorOff /\ ConcurrentOff
InitSections == content \in SectionContents /\ ParserIdle /\ ProcessorOff /\ ConcurrentOff
NextParse == ParseCall \/ ParseLineStep \/ ParseFinish

SpecParse == InitParse /\ [][NextParse]_vars
SpecDerived == InitDerived /\ [][NextParse]_vars
SpecObjects == InitObjects /\ [][NextParse]_vars
SpecSections == InitSections /\ [][NextParse]_vars

InitReparse == content \in ReparseTexts /\ ParserIdle /\ ProcessorOff /\ ConcurrentOff
NextReparse == ParseCall \/ ParseLineStep \/ ParseFinish \/ ParseAgain
SpecReparse == InitReparse /\ [][NextReparse]_vars

-----------------------------------------------------------------------------
(* parse_content as a function of the text: what parse_osu_content gives.   *)

RECURSIVE ParseLines(_, _, _)
ParseLines(st, lines, i) ==
    IF i > Len(lines) THEN st
    ELSE LET r == _parse_line([section |-> st.section, data |-> st.data], lines[i])
         IN IF r.exc # "" /\ OnLineError(r.exc) # "continue"
            THEN [st EXCEPT !.raised = TRUE]
            ELSE ParseLines([section |-> r.section, data |-> r.data,
                             warned |-> IF r.exc # "" THEN st.warned \cup {i}
                                        ELSE st.warned,
                             raised |-> FALSE],
                            lines, i + 1)

parse_content(lines) ==
    LET st == ParseLines([section |-> "", data |-> DefaultData, warned |-> {},
                          raised |-> FALSE], lines, 1)
    IN [raised |-> st.raised,
        warned |-> st.warned,
        data |-> IF st.raised THEN st.data ELSE _calculate_derived_info(st.data)]

-----------------------------------------------------------------------------
(* The archive processor.                                                  *)
(*                                                                         *)
(* An archive is [container, members, size, name].  container says what    *)
(* zipfile makes of the bytes: "ok"; "corrupt" (ZipFile or extractall      *)
(* raises BadZipFile); "encrypted" (ZipFile opens, extractall raises       *)
(* RuntimeError for a member that needs a password).  A member is a        *)
(* regular file of the archive: [path, dir, ext, readable, content, size]; *)
(* dir is the directory of the path ("" at the top), ext the suffix of its *)
(* name, content names its bytes, readable is whether read_bytes succeeds  *)
(* on the extracted file.                                                  *)

Md5(bytes) == "md5:" \o bytes

\* str.lower() on the names and suffixes of the model.
Lower(str) ==
    CASE str = ".OSU" -> ".osu"
      [] str = ".MP3" -> ".mp3"
      [] str = "Song.mp3" -> "song.mp3"
      [] str = "SONG.MP3" -> "song.mp3"
      [] str = ".Osu" -> ".osu"
      [] str = ".JPG" -> ".jpg"
      [] str = ".Mp4" -> ".mp4"
      [] str = ".TXT" -> ".txt"
      [] str = ".Bak" -> ".bak"
      [] OTHER -> str

\* The texts of the chart files of the model, by content name.
ChartText(bytes) ==
    CASE bytes = "chartA" ->
            <<VersionLine(IntTok(14)),
              HeaderLine("General"),
              KvLine("AudioFilename", <<StrTok("song.mp3")>>),
              HeaderLine("Metadata"),
              KvLine("Title", <<StrTok("T")>>),
              KvLine("Artist", <<StrTok("Ar")>>),
              KvLine("Creator", <<StrTok("Cr")>>),
              KvLine("Version", <<StrTok("Easy")>>),
              HeaderLine("TimingPoints"),
              CsvLine(<<IntTok(0), IntTok(500)>>),
              HeaderLine("HitObjects"),
              CsvLine(<<IntTok(256), IntTok(192), IntTok(1000), IntTok(1), IntTok(0)>>)>>
      [] bytes = "chartB" ->
            <<HeaderLine("Metadata"),
              KvLine("TitleUnicode", <<StrTok("Tu")>>),
              KvLine("Version", <<StrTok("Hard")>>),
              HeaderLine("TimingPoints"),
              CsvLine(<<InfTok, IntTok(500)>>)>>
      [] OTHER -> <<>>

AUDIO_EXTENSIONS == {".mp3", ".ogg", ".wav", ".m4a"}
IMAGE_EXTENSIONS == {".jpg", ".jpeg", ".png", ".gif", ".bmp"}
VIDEO_EXTENSIONS == {".avi", ".flv", ".mpg", ".wmv", ".mp4", ".m4v"}
STORYBOARD_EXTENSIONS == {".osb", ".txt"}

\* Faulty variant: the extension compared as it is written.
GetFileTypeAsWritten(suffix) ==
    IF suffix = ".osu" THEN "osu"
    ELSE IF suffix \in AUDIO_EXTENSIONS THEN "audio"
    ELSE IF suffix \in IMAGE_EXTENSIONS THEN "image"
    ELSE IF suffix \in VIDEO_EXTENSIONS THEN "video"
    ELSE IF suffix \in STORYBOARD_EXTENSIONS THEN "storyboard"
    ELSE "other"

_get_file_type(suffix) ==
    LET ext == Lower(suffix)
    IN IF ext = ".osu" THEN "osu"
       ELSE IF ext \in AUDIO_EXTENSIONS THEN "audio"
       ELSE IF ext \in IMAGE_EXTENSIONS THEN "image"
       ELSE IF ext \in VIDEO_EXTENSIONS THEN "video"
       ELSE IF ext \in STORYBOARD_EXTENSIONS THEN "storyboard"
       ELSE "other"

\* OszMapset(title="", artist="", creator="")
NewMapset ==
    [kind |-> "mapset", title |-> "", artist |-> "", creator |-> "",
     source |-> "", tags |-> "", description |-> "",
     osz_filename |-> "", osz_hash |-> "", osz_size |-> 0,
     beatmaps |-> <<>>, files |-> <<>>]

\* The warnings the processor and the parser print.
WarnUnreadable(filename) == "Warning: Cannot read file " \o filename
WarnUnparsable(filename) == "Warning: Cannot parse beatmap " \o filename
WarnLine(filename) == "Warning: Error parsing line of " \o filename

\* Faulty variant: an unreadable file is passed over without a word.
ReadFailureSilent(filename) == {}

\* What the except clause around read_bytes leaves behind: a printed warning.
ReadFailure(filename) == {WarnUnreadable(filename)}

\* _process_file once the bytes are read: the file's OszFileInfo is appended
\* and a chart file is decoded, parsed and appended; [mapset, printed, exc],
\* exc being the exception that left it ("" when none).
ProcessContent(e, ms) ==
         LET file_hash == Md5(e.content)
             file_type == _get_file_type(e.ext)
             file_info == [filename |-> e.path, size |-> e.size,
                           md5_hash |-> file_hash, content |-> e.content,
                           file_type |-> file_type]
             ms1 == [ms EXCEPT !.files = Append(@, file_info)]
         IN IF file_type = "osu"
            THEN LET r == parse_content(ChartText(e.content))
                     lw == IF r.warned # {} THEN {WarnLine(e.path)} ELSE {}
                 IN IF r.raised
                    THEN [mapset |-> ms1, printed |-> {WarnUnparsable(e.path)},
                          exc |-> ""]
                    ELSE [mapset |-> [ms1 EXCEPT !.beatmaps = Append(@,
                                        [r.data EXCEPT !.filename = e.path,
                                                       !.md5 = file_hash])],
                          printed |-> lw, exc |-> ""]
            ELSE [mapset |-> ms1, printed |-> {}, exc |-> ""]

\* Faulty variant: read_bytes outside any try, so that its OSError leaves the call.
ProcessFileUnguarded(e, ms) ==
    IF ~e.readable
    THEN [mapset |-> ms, printed |-> {}, exc |-> "OSError"]
    ELSE ProcessContent(e, ms)

\* _process_file on one regular file of the working area.
_process_file(e, ms) ==
    IF ~e.readable
    THEN [mapset |-> ms, printed |-> ReadFailure(e.path), exc |-> ""]
    ELSE ProcessContent(e, ms)

\* Faulty variant: no fall back to the second value.
OrElseFirstOnly(a, b) == a

\* a or b on strings.
OrElse(a, b) == IF a # "" THEN a ELSE b

\* Faulty variant: the archive is refused when it holds no file at all.
NoFiles(ms) == ms.files = <<>>

\* The test after the walk: no chart was produced.
NoBeatmaps(ms) == ms.beatmaps = <<>>

\* The tail of _parse_extracted_files: the test for charts and the fill of
\* the mapset's fields from the first chart; [mapset, err].
Aggregate(ms) ==
    IF NoBeatmaps(ms) THEN [mapset |-> ms, err |-> "NoValidCharts"]
    ELSE IF ms.beatmaps = <<>> THEN [mapset |-> ms, err |-> "IndexError"]
    ELSE LET first_map == ms.beatmaps[1]
         IN [mapset |->
               [ms EXCEPT
                  !.title = IF ms.title = ""
                            THEN OrElse(first_map.title, first_map.title_unicode)
                            ELSE ms.title,
                  !.artist = IF ms.artist = ""
                             THEN OrElse(first_map.artist, first_map.artist_unicode)
                             ELSE ms.artist,
                  !.creator = IF ms.creator = "" THEN first_map.creator ELSE ms.creator,
                  !.source = IF ms.source = "" THEN first_map.source ELSE ms.source,
                  !.tags = IF ms.tags = "" THEN first_map.tags ELSE ms.tags],
             err |-> ""]

\* Faulty variant: BadZipFile is swallowed and the walk goes on over what there is.
ExtractErrorSwallowed(container) ==
    IF container = "encrypted" THEN "RuntimeError" ELSE ""

\* The try around ZipFile and extractall: BadZipFile becomes the ValueError
\* "Invalid OSZ file", any other exception passes unchanged.
ExtractError(container) ==
    CASE container = "corrupt" -> "InvalidArchive"
      [] container = "encrypted" -> "RuntimeError"
      [] OTHER -> ""

\* Faulty variant: the directory is removed at the end of the block only, so not
\* when an exception leaves it.
CleansOnSuccessOnly(e) == e = ""

\* TemporaryDirectory.__exit__: the directory and all in it are removed,
\* however the block is left.
TempDirCleans(e) == TRUE

\* The temporary copy of the archive that process_osz_bytes writes.
TempOsz ==
    [path |-> "temp.osz", dir |-> "", ext |-> ".osz", isfile |-> TRUE,
     readable |-> TRUE, content |-> "zip", size |-> archive.size]

FileEntry(m) ==
    [path |-> m.path, dir |-> m.dir, ext |-> m.ext, isfile |-> TRUE,
     readable |-> m.readable, content |-> m.content, size |-> m.size]

DirEntry(d) ==
    [path |-> d, dir |-> "", ext |-> "", isfile |-> FALSE,
     readable |-> TRUE, content |-> "", size |-> 0]

\* What extractall has written after the first k members.
Extracted(members, k) ==
    {FileEntry(members[i]) : i \in 1..k}
        \cup {DirEntry(members[i].dir) : i \in {j \in 1..k : members[j].dir # ""}}


-----------------------------------------------------------------------------
(* validate_osz *)

\* not s.strip()
IsBlank(str) == str \in {"", " "}

Range(seq) == {seq[i] : i \in 1..Len(seq)}

\* Faulty variant: the checks of a chart chained by elif, so that a chart gives
\* its first problem only.
BeatmapErrorsFirstOnly(ms, beatmap, seen) ==
    IF <<beatmap.mode, beatmap.version>> \in seen
    THEN <<"Duplicate difficulty version: " \o beatmap.version
            \o " (mode " \o ToString(beatmap.mode) \o ")">>
    ELSE IF IsBlank(beatmap.version)
    THEN <<"Beatmap version/difficulty name is required">>
    ELSE IF IsBlank(beatmap.creator)
    THEN <<"Beatmap creator is required">>
    ELSE IF beatmap.hit_objects = <<>>
    THEN <<"No hit objects found in difficulty: " \o beatmap.version>>
    ELSE IF beatmap.audio_filename # ""
            /\ ~\E i \in 1..Len(ms.files) :
                  /\ Lower(ms.files[i].filename) = Lower(beatmap.audio_filename)
                  /\ ms.files[i].file_type = "audio"
    THEN <<"Audio file not found: " \o beatmap.audio_filename>>
    ELSE <<>>

\* Faulty variant: the audio file of a chart is looked for by name alone, among
\* the files of every type.
BeatmapErrorsAnyRole(ms, beatmap, seen) ==
    (IF <<beatmap.mode, beatmap.version>> \in seen
     THEN <<"Duplicate difficulty version: " \o beatmap.version
             \o " (mode " \o ToString(beatmap.mode) \o ")">>
     ELSE <<>>)
    \o (IF IsBlank(beatmap.version)
        THEN <<"Beatmap version/difficulty name is required">> ELSE <<>>)
    \o (IF IsBlank(beatmap.creator)
        THEN <<"Beatmap creator is required">> ELSE <<>>)
    \o (IF beatmap.hit_objects = <<>>
        THEN <<"No hit objects found in difficulty: " \o beatmap.version>> ELSE <<>>)
    \o (IF beatmap.audio_filename # ""
           /\ ~\E i \in 1..Len(ms.files) :
                 Lower(ms.files[i].filename) = Lower(beatmap.audio_filename)
        THEN <<"Audio file not found: " \o beatmap.audio_filename>> ELSE <<>>)

\* The problems of one chart, in the order the loop adds them.
BeatmapErrors(ms, beatmap, seen) ==
    (IF <<beatmap.mode, beatmap.version>> \in seen
     THEN <<"Duplicate difficulty version: " \o beatmap.version
             \o " (mode " \o ToString(beatmap.mode) \o ")">>
     ELSE <<>>)
    \o (IF IsBlank(beatmap.version)
        THEN <<"Beatmap version/difficulty name is required">> ELSE <<>>)
    \o (IF IsBlank(beatmap.creator)
        THEN <<"Beatmap creator is required">> ELSE <<>>)
    \o (IF beatmap.hit_objects = <<>>
        THEN <<"No hit objects found in difficulty: " \o beatmap.version>> ELSE <<>>)
    \o (IF beatmap.audio_filename # ""
           /\ ~\E i \in 1..Len(ms.files) :
                 /\ Lower(ms.files[i].filename) = Lower(beatmap.audio_filename)
                 /\ ms.files[i].file_type = "audio"
        THEN <<"Audio file not found: " \o beatmap.audio_filename>> ELSE <<>>)

\* Faulty variant: the loop without seen_versions.add(version_key).
RECURSIVE BeatmapLoopNoAdd(_, _, _)
BeatmapLoopNoAdd(ms, i, seen) ==
    IF i > Len(ms.beatmaps) THEN <<>>
    ELSE BeatmapErrors(ms, ms.beatmaps[i], seen) \o BeatmapLoopNoAdd(ms, i + 1, seen)

\* The loop over the charts, seen being seen_versions.
RECURSIVE BeatmapLoop(_, _, _)
BeatmapLoop(ms, i, seen) ==
    IF i > Len(ms.beatmaps) THEN <<>>
    ELSE BeatmapErrors(ms, ms.beatmaps[i], seen)
         \o BeatmapLoop(ms, i + 1,
                        seen \cup {<<ms.beatmaps[i].mode, ms.beatmaps[i].version>>})

\* Faulty variant: the audio files are looked for only when a chart names one.
NoAudioFilesDeclared(ms) ==
    /\ \A i \in 1..Len(ms.files) : ms.files[i].file_type # "audio"
    /\ \E i \in 1..Len(ms.beatmaps) : ms.beatmaps[i].audio_filename # ""

\* not [f for f in mapset.files if f.file_type == "audio"]
NoAudioFiles(ms) == \A i \in 1..Len(ms.files) : ms.files[i].file_type # "audio"

\* Faulty variant: validation that goes on to the audio files when the mapset
\* has no chart.
ValidateNoEarlyReturn(ms) ==
    LET basic ==
            (IF IsBlank(ms.title) THEN <<"Mapset title is required">> ELSE <<>>)
            \o (IF IsBlank(ms.artist) THEN <<"Artist name is required">> ELSE <<>>)
            \o (IF IsBlank(ms.creator) THEN <<"Creator name is required">> ELSE <<>>)
    IN basic
       \o (IF ms.beatmaps = <<>> THEN <<"At least one beatmap is required">> ELSE <<>>)
       \o BeatmapLoop(ms, 1, {})
       \o (IF NoAudioFiles(ms)
           THEN <<"At least one audio file is required">> ELSE <<>>)

validate_osz(ms) ==
    LET basic ==
            (IF IsBlank(ms.title) THEN <<"Mapset title is required">> ELSE <<>>)
            \o (IF IsBlank(ms.artist) THEN <<"Artist name is required">> ELSE <<>>)
            \o (IF IsBlank(ms.creator) THEN <<"Creator name is required">> ELSE <<>>)
    IN IF ms.beatmaps = <<>>
       THEN basic \o <<"At least one beatmap is required">>
       ELSE basic \o BeatmapLoop(ms, 1, {})
            \o (IF NoAudioFiles(ms)
                THEN <<"At least one audio file is required">> ELSE <<>>)

-----------------------------------------------------------------------------
(* The inputs of the processor. *)

Member(path, dir, ext, readable, bytes, size) ==
    [path |-> path, dir |-> dir, ext |-> ext, readable |-> readable,
     content |-> bytes, size |-> size]

MemberPool ==
    {Member("easy.osu", "", ".osu", TRUE, "chartA", 120),
     Member("hard.osu", "", ".osu", TRUE, "chartB", 60),
     Member("song.mp3", "", ".mp3", TRUE, "mp3", 900),
     Member("locked.osu", "", ".osu", FALSE, "chartA", 120),
     Member("copy.osu", "", ".osu", TRUE, "chartA", 120),
     Member("sb/notes.txt", "sb", ".txt", TRUE, "txt", 10)}

\* Sequences of distinct members.
MemberSeqs ==
    {ms \in SeqsUpTo(MemberPool, MaxMembers) :
        \A i, j \in 1..Len(ms) : i # j => ms[i] # ms[j]}

Archives ==
    {[container |-> c, members |-> ms, bytes |-> "zip", size |-> 1000,
      name |-> "upload.osz"] :
        c \in {"ok", "corrupt", "encrypted"}, ms \in MemberSeqs}

\* The mapsets handed to validate_osz.  A chart of the given version, mode,
\* creator, hit objects and audio file name:
Chart(version, mode, creator, hit_objects, audio_filename) ==
    [DefaultData EXCEPT !.version = version, !.mode = mode, !.creator = creator,
                        !.hit_objects = hit_objects,
                        !.audio_filename = audio_filename]

OneObject == parse_content(<<HeaderLine("HitObjects"), ObjLine(1000, 1)>>).data.hit_objects

ValidateCharts ==
    {Chart("Normal", 0, "Cr", OneObject, "song.mp3"),
     Chart("Normal", 1, "Cr", OneObject, "song.mp3"),
     Chart("Hard", 0, "Cr", OneObject, ""),
     Chart(" ", 0, "Cr", OneObject, "SONG.MP3"),
     Chart("Normal", 0, "", OneObject, "song.mp3"),
     Chart("Normal", 0, "Cr", <<>>, "song.mp3"),
     Chart("Insane", 0, "Cr", OneObject, "other.mp3"),
     Chart("Extra", 0, "Cr", OneObject, "bg.jpg")}

FileInfo(filename, ext) ==
    [filename |-> filename, size |-> 1, md5_hash |-> Md5(filename),
     content |-> filename, file_type |-> _get_file_type(ext)]

ValidateFiles ==
    {<<>>,
     <<FileInfo("song.mp3", ".mp3")>>,
     <<FileInfo("bg.jpg", ".jpg")>>,
     <<FileInfo("other.ogg", ".ogg")>>,
     <<FileInfo("bg.jpg", ".jpg"), FileInfo("Song.mp3", ".mp3")>>}

\* title, artist, creator
ValidateHeads ==
    {<<"T", "A", "C">>, <<" ", "A", "C">>, <<"T", "", "C">>, <<"T", "A", "">>,
     <<"", "", "">>}

ValidateInputs ==
    {[NewMapset EXCEPT !.title = h[1], !.artist = h[2], !.creator = h[3],
                       !.beatmaps = bs, !.files = fs] :
        h \in ValidateHeads,
        bs \in SeqsUpTo(ValidateCharts, MaxCharts),
        fs \in ValidateFiles}

\* The archives that show what _get_file_type makes of a name.  A name is
\* the sequence of its pieces between the dots: <<"a", "tar", "gz">> is
\* a.tar.gz, <<"", "osu">> is .osu and <<"song", "">> is song. with a dot at
\* its end.
RECURSIVE JoinDots(_)
JoinDots(pieces) ==
    IF Len(pieces) = 1 THEN pieces[1]
    ELSE pieces[1] \o "." \o JoinDots(Tail(pieces))

\* file_path.suffix: what follows the last dot of the name, with the dot,
\* when that dot is neither the first nor the last character of the name.
Suffix(pieces) ==
    LET n == Len(pieces)
    IN IF n >= 2 /\ pieces[n] # "" /\ (n >= 3 \/ pieces[1] # "")
       THEN "." \o pieces[n]
       ELSE ""

NamedMember(dir, pieces, bytes) ==
    Member((IF dir = "" THEN "" ELSE dir \o "/") \o JoinDots(pieces), dir,
           Suffix(pieces), TRUE, bytes, 1)

\* The chart that lets the call return a record.
BaseChart == NamedMember("", <<"base", "osu">>, "chartA")

TypeSubjects ==
    {NamedMember("", <<"a", x>>, "bin") :
        x \in {"mp3", "ogg", "wav", "m4a", "jpg", "jpeg", "png", "gif", "bmp",
               "avi", "flv", "mpg", "wmv", "mp4", "m4v", "osb", "txt", "zip"}}
    \cup {NamedMember("", <<"a", "osu">>, "chartB"),
          NamedMember("sb", <<"b", "OSU">>, "chartA"),
          NamedMember("", <<"c", "Osu">>, "chartA"),
          NamedMember("sb", <<"b", "JPG">>, "bin"),
          NamedMember("sb", <<"c", "Mp4">>, "bin"),
          NamedMember("", <<"b", "TXT">>, "bin"),
          NamedMember("", <<"b", "Bak">>, "bin"),
          NamedMember("", <<"readme">>, "bin"),
          NamedMember("", <<"mp3">>, "bin"),
          NamedMember("", <<"", "osu">>, "chartA"),
          NamedMember("", <<"song", "">>, "bin"),
          NamedMember("", <<"a", "osu", "bak">>, "chartA"),
          NamedMember("", <<"a", "bak", "mp3">>, "bin"),
          NamedMember("v1.mp3", <<"readme">>, "bin")}

TypeCompanions ==
    {NamedMember("sb", <<"b", "MP3">>, "txt"),
     NamedMember("sb", <<"b", "txt">>, "mp3")}

TypeArchives ==
    {[container |-> c, members |-> <<BaseChart, m>> \o more, bytes |-> "zip",
      size |-> 1000, name |-> "upload.osz"] :
        c \in {"ok", "corrupt"}, m \in TypeSubjects,
        more \in {ms \in SeqsUpTo(TypeCompanions, MaxCompanions) :
                    \A i, j \in 1..Len(ms) : i # j => ms[i] # ms[j]}}

-----------------------------------------------------------------------------
(* process_osz_bytes and process_osz_file, step by step. *)

\* The call up to the extraction: the hash and size of the archive, the
\* temporary directory, and (process_osz_bytes) the copy of the archive in it.
ProcessCall ==
    /\ ppc = "start"
    /\ tmp_exists' = TRUE
    /\ workdir' = IF entry = "bytes" THEN {TempOsz} ELSE {}
    /\ ppc' = "extract"
    /\ UNCHANGED <<archive, entry, todo, mapset, ret, err, printed, validated,
                   problems, pvars, cvars>>

\* ZipFile(...).extractall(extract_path); on success the walk is set up by
\* _parse_extracted_files: a new OszMapset and rglob("*").
Extract ==
    /\ ppc = "extract"
    /\ IF ExtractError(archive.container) # ""
       THEN /\ \E k \in 0..Len(archive.members) :
                  workdir' = workdir \cup Extracted(archive.members, k)
            /\ err' = ExtractError(archive.container)
            /\ ppc' = "exit"
            /\ UNCHANGED <<todo, mapset>>
       ELSE /\ workdir' = workdir \cup Extracted(archive.members, Len(archive.members))
            /\ todo' = workdir'
            /\ mapset' = NewMapset
            /\ ppc' = IF todo' = {} THEN "check" ELSE "walk"
            /\ err' = err
    /\ UNCHANGED <<archive, entry, tmp_exists, ret, printed, validated, problems, pvars, cvars>>

\* One turn of the loop over rglob("*"), which yields the entries of the
\* directory tree in the order the file system lists them.
WalkStep ==
    /\ ppc = "walk"
    /\ \E e \in todo :
          /\ todo' = todo \ {e}
          /\ IF e.isfile
             THEN /\ mapset' = _process_file(e, mapset).mapset
                  /\ printed' = printed \cup _process_file(e, mapset).printed
                  /\ err' = _process_file(e, mapset).exc
             ELSE UNCHANGED <<mapset, printed, err>>
          /\ ppc' = IF err' # "" THEN "exit"
                    ELSE IF todo' = {} THEN "check" ELSE "walk"
    /\ UNCHANGED <<archive, entry, workdir, tmp_exists, ret, validated,
                   problems, pvars, cvars>>

\* After the walk: the test for charts and the fill from the first chart.
AggregateStep ==
    /\ ppc = "check"
    /\ mapset' = Aggregate(mapset).mapset
    /\ err' = Aggregate(mapset).err
    /\ ppc' = "exit"
    /\ UNCHANGED <<archive, entry, workdir, tmp_exists, todo, ret, printed,
                   validated, problems, pvars, cvars>>

\* The end of the with block and of the call: the temporary directory is
\* removed; an exception in flight goes on to the caller; otherwise the
\* archive's name, hash and size are set and the mapset is returned.
ExitWith ==
    /\ ppc = "exit"
    /\ IF TempDirCleans(err)
       THEN workdir' = {} /\ tmp_exists' = FALSE
       ELSE UNCHANGED <<workdir, tmp_exists>>
    /\ IF err = ""
       THEN /\ ret' = [mapset EXCEPT !.osz_filename = archive.name,
                                     !.osz_hash = Md5(archive.bytes),
                                     !.osz_size = archive.size]
            /\ ppc' = "returned"
       ELSE /\ ret' = ret
            /\ ppc' = "raised"
    /\ mapset' = NoMapset
    /\ todo' = {}
    /\ UNCHANGED <<archive, entry, err, printed, validated, problems, pvars, cvars>>

\* The caller validates the mapset it got.
Validate ==
    /\ ppc = "returned"
    /\ problems' = validate_osz(ret)
    /\ validated' = TRUE
    /\ ppc' = "validated"
    /\ UNCHANGED <<archive, entry, workdir, tmp_exists, todo, mapset, ret, err,
                   printed, pvars, cvars>>

\* A processor and an archive to process.
InitProc ==
    /\ content = <<>> /\ ParserIdle
    /\ archive \in Archives
    /\ entry \in {"bytes", "file"}
    /\ ppc = "start"
    /\ workdir = {}
    /\ tmp_exists = FALSE
    /\ todo = {}
    /\ mapset = NoMapset
    /\ ret = NoMapset
    /\ err = ""
    /\ printed = {}
    /\ validated = FALSE
    /\ problems = <<>>
    /\ ConcurrentOff

NextProc == ProcessCall \/ Extract \/ WalkStep \/ AggregateStep \/ ExitWith \/ Validate

SpecProc == InitProc /\ [][NextProc]_vars

\* A processor and an archive whose members differ in their names.
InitTypes ==
    /\ content = <<>> /\ ParserIdle
    /\ archive \in TypeArchives
    /\ entry \in {"bytes", "file"}
    /\ ppc = "start"
    /\ workdir = {}
    /\ tmp_exists = FALSE
    /\ todo = {}
    /\ mapset = NoMapset
    /\ ret = NoMapset
    /\ err = ""
    /\ printed = {}
    /\ validated = FALSE
    /\ problems = <<>>
    /\ ConcurrentOff

SpecTypes == InitTypes /\ [][NextProc]_vars

\* A mapset and a caller about to validate it.
InitValidate ==
    /\ content = <<>> /\ ParserIdle
    /\ archive = NoArchive
    /\ entry = "bytes"
    /\ ppc = "returned"
    /\ workdir = {}
    /\ tmp_exists = FALSE
    /\ todo = {}
    /\ mapset = NoMapset
    /\ ret \in ValidateInputs
    /\ err = ""
    /\ printed = {}
    /\ validated = FALSE
    /\ problems = <<>>
    /\ ConcurrentOff

NextValidate == Validate

SpecValidate == InitValidate /\ [][NextValidate]_vars

-----------------------------------------------------------------------------
(* Several calls of the processor in flight at once.  A call has no state  *)
(* but its locals and its temporary directory: the processor keeps only    *)
(* storage_path, and parse_osu_content makes a parser of its own.          *)

Callers == {"c1", "c2"}
AreaNames == {"tmp1", "tmp2"}

NoArea == [exists |-> FALSE, files |-> {}]

\* Faulty variant: a working directory of a fixed name, made if it is not there.
MkdtempAny(fs) == AreaNames

\* tempfile.TemporaryDirectory(): mkdtemp makes a directory of a name that
\* no directory has; the names it may take.
mkdtemp(fs) == {d \in AreaNames : ~fs[d].exists}

\* len(osz_data) and osz_path.stat().st_size
ByteLen(bytes) == Len(bytes)

\* Faulty variant: a hash of the size of the file.
HashOfSize(bytes) == Md5(ToString(Len(bytes)))

\* _calculate_file_hash: the md5 of the file, read in chunks.
_calculate_file_hash(bytes) == Md5(bytes)

\* osz_hash of the two entry points.
ArchiveHash(e, bytes) ==
    IF e = "bytes" THEN Md5(bytes) ELSE _calculate_file_hash(bytes)

\* osz_filename of the two entry points; name is osz_path.name.
ArchiveName(e, original_filename, name) ==
    IF e = "bytes" THEN original_filename ELSE OrElse(original_filename, name)

\* temp.osz as the call on archive a writes it.
TempOszOf(a) ==
    [path |-> "temp.osz", dir |-> "", ext |-> ".osz", isfile |-> TRUE,
     readable |-> TRUE, content |-> a.bytes, size |-> ByteLen(a.bytes)]

\* The archives of the calls: the members are given by the bytes.
ConcurrentArchives ==
    {[container |-> "ok", bytes |-> "PK-a", name |-> "a.osz",
      members |-> <<Member("easy.osu", "", ".osu", TRUE, "chartA", 120),
                    Member("song.mp3", "", ".mp3", TRUE, "mp3", 900)>>],
     [container |-> "ok", bytes |-> "PK-b", name |-> "b.osz",
      members |-> <<Member("hard.osu", "", ".osu", TRUE, "chartB", 60)>>],
     [container |-> "corrupt", bytes |-> "PK", name |-> "c.osz",
      members |-> <<Member("easy.osu", "", ".osu", TRUE, "chartA", 120)>>]}

DeclaredNames == {"one.osz", ""}

NewCall(a, e, n) ==
    [archive |-> a, entry |-> e, original_filename |-> n, ppc |-> "start",
     dir |-> "", todo |-> {}, mapset |-> NoMapset, ret |-> NoMapset,
     err |-> "", printed |-> {}]

\* The call of c up to the extraction.
CallStart(c) ==
    /\ calls[c].ppc = "start"
    /\ \E d \in mkdtemp(areas) :
          /\ areas' = [areas EXCEPT ![d] =
                          [exists |-> TRUE,
                           files |-> @.files \cup
                               (IF calls[c].entry = "bytes"
                                THEN {TempOszOf(calls[c].archive)} ELSE {})]]
          /\ calls' = [calls EXCEPT ![c].dir = d, ![c].ppc = "extract"]
    /\ UNCHANGED <<pvars, zvars>>

\* extractall into the directory of the call, and the set up of the walk.
CallExtract(c) ==
    LET me == calls[c]
        members == me.archive.members
    IN /\ me.ppc = "extract"
       /\ IF ExtractError(me.archive.container) # ""
          THEN /\ \E k \in 0..Len(members) :
                     areas' = [areas EXCEPT ![me.dir].files =
                                  @ \cup Extracted(members, k)]
               /\ calls' = [calls EXCEPT
                              ![c].err = ExtractError(me.archive.container),
                              ![c].ppc = "exit"]
          ELSE /\ areas' = [areas EXCEPT ![me.dir].files =
                               @ \cup Extracted(members, Len(members))]
               /\ calls' = [calls EXCEPT
                              ![c].todo = areas'[me.dir].files,
                              ![c].mapset = NewMapset,
                              ![c].ppc = IF areas'[me.dir].files = {}
                                         THEN "check" ELSE "walk"]
       /\ UNCHANGED <<pvars, zvars>>

\* One turn of the loop over rglob("*") in the call of c; is_file() is
\* asked of the file system as it is now.
CallWalk(c) ==
    /\ calls[c].ppc = "walk"
    /\ \E me \in {calls[c]} : \E e \in me.todo :
          \E r \in {IF e \in areas[me.dir].files /\ e.isfile
                     THEN _process_file(e, me.mapset)
                     ELSE [mapset |-> me.mapset, printed |-> {}, exc |-> ""]} :
             calls' = [calls EXCEPT
                         ![c].todo = me.todo \ {e},
                         ![c].mapset = r.mapset,
                         ![c].printed = me.printed \cup r.printed,
                         ![c].err = r.exc,
                         ![c].ppc = IF r.exc # "" THEN "exit"
                                    ELSE IF me.todo \ {e} = {} THEN "check"
                                    ELSE "walk"]
    /\ UNCHANGED <<areas, pvars, zvars>>

\* After the walk of the call of c.
CallCheck(c) ==
    LET me == calls[c]
    IN /\ me.ppc = "check"
       /\ calls' = [calls EXCEPT ![c].mapset = Aggregate(me.mapset).mapset,
                                 ![c].err = Aggregate(me.mapset).err,
                                 ![c].ppc = "exit"]
       /\ UNCHANGED <<areas, pvars, zvars>>

\* The end of the with block and of the call of c: its directory is removed
\* with all that is in it.
CallExit(c) ==
    LET me == calls[c]
    IN /\ me.ppc = "exit"
       /\ areas' = IF TempDirCleans(me.err)
                   THEN [areas EXCEPT ![me.dir] = NoArea]
                   ELSE areas
       /\ calls' = [calls EXCEPT
                      ![c].ret =
                          IF me.err = ""
                          THEN [me.mapset EXCEPT
                                  !.osz_filename =
                                      ArchiveName(me.entry, me.original_filename,
                                                  me.archive.name),
                                  !.osz_hash = ArchiveHash(me.entry, me.archive.bytes),
                                  !.osz_size = ByteLen(me.archive.bytes)]
                          ELSE me.ret,
                      ![c].mapset = NoMapset,
                      ![c].todo = {},
                      ![c].ppc = IF me.err = "" THEN "returned" ELSE "raised"]
       /\ UNCHANGED <<pvars, zvars>>

\* Callers, each with an archive, and no temporary directory.
InitConcurrent ==
    /\ content = <<>> /\ ParserIdle /\ ProcessorOff
    /\ calls \in [Callers -> {NewCall(a, e, n) : a \in ConcurrentArchives,
                                                e \in {"bytes", "file"},
                                                n \in DeclaredNames}]
    /\ areas = [d \in AreaNames |-> NoArea]

NextConcurrent ==
    \E c \in Callers :
        CallStart(c) \/ CallExtract(c) \/ CallWalk(c) \/ CallCheck(c) \/ CallExit(c)

SpecConcurrent == InitConcurrent /\ [][NextConcurrent]_vars

Init == InitParse \/ InitDerived \/ InitProc
Next == NextParse \/ NextProc
Spec == Init /\ [][Next]_vars

-----------------------------------------------------------------------------
(* Properties of the parser. *)

RecognizedSections ==
    {"General", "Editor", "Metadata", "Difficulty", "Events", "TimingPoints",
     "Colours", "HitObjects"}

\* The name of the last header line among the first n lines, "" when none.
LastHeader(lines, n) ==
    LET H == {i \in 1..n : lines[i].k = "header"}
    IN IF H = {} THEN "" ELSE lines[SetMax(H)].name

\* The lines without those at the positions in S, in order.
RECURSIVE Without(_, _, _)
Without(lines, S, i) ==
    IF i > Len(lines) THEN <<>>
    ELSE (IF i \in S THEN <<>> ELSE <<lines[i]>>) \o Without(lines, S, i + 1)

\* C1: parse_content returns a record for every text and never raises; a
\* line whose handling failed is skipped (the result is that of the text
\* without it) and every line after it is processed, up to the last one.
C1_ParseNeverRaises ==
    /\ outcome # "raised"
    /\ pc \in {"derive", "done"} => pos = Len(content) + 1
    /\ pc = "done" =>
          /\ outcome = "returned"
          /\ data = parse_content(Without(content, warned, 1)).data

\* A line raised inside its handler and the line after it took effect.
C1_Witness ==
    /\ pc = "done" /\ outcome = "returned"
    /\ Len(content) = 3
    /\ content[2] = CsvLine(<<InfTok, IntTok(500)>>)
    /\ 2 \in warned
    /\ Len(data.timing_points) = 1

\* C7 as stated: the current section is the one the last header named; a
\* line before the first header other than the version marker, and every
\* line in a section of unrecognized name, leaves the record unchanged.
C7_AsStated ==
    [][pc = "line" /\ content[pos].k # "header"
       /\ current_section \notin RecognizedSections
       /\ (current_section = "" => content[pos].k # "version")
       => data' = data]_vars

\* C7 (amended): the current section is always the one named by the most
\* recent header line; a header switches it from any state and changes no
\* data; a content line is handled by the handler of that section; outside
\* a recognized section every line other than a version marker (before the
\* first header and in an unknown section alike) leaves the record
\* unchanged.
C7_SectionDispatch ==
    /\ [](pc \in {"line", "derive", "done"} =>
             current_section = LastHeader(content, pos - 1))
    /\ [][pc = "line" /\ content[pos].k = "header"
          => current_section' = content[pos].name /\ data' = data]_vars
    /\ [][pc = "line" /\ content[pos].k \in {"kv", "csv"}
          => data' = Dispatch(LastHeader(content, pos - 1), data, content[pos]).data]_vars
    /\ [][pc = "line" /\ content[pos].k \notin {"header", "version"}
          /\ current_section \notin RecognizedSections
          => data' = data]_vars

\* A recognized section is entered again after an unknown one and its
\* handler acts.
C7_Witness ==
    /\ pc = "done"
    /\ Len(content) = 4
    /\ content[1] = HeaderLine("General")
    /\ content[2] = HeaderLine("Foo")
    /\ content[3] = HeaderLine("General")
    /\ content[4] = KvLine("Mode", <<IntTok(1)>>)
    /\ data.mode = 1

\* Whether a line is a version marker whose number parses.
GoodMarker(line) == line.k = "version" /\ line.f[1].t = "int"

\* C8 as stated: the format is the number of a marker on the first line,
\* and 14 in every other case.
C8_AsStated ==
    pc = "done" =>
        data.osu_file_format =
            IF Len(content) >= 1 /\ GoodMarker(content[1])
            THEN content[1].f[1].v ELSE 14

\* C8 (amended): osu_file_format is the integer of the last version-marker
\* line of the input whose number parses, on whatever line it stands, and
\* the default 14 when no line is such a marker.
C8_LastMarkerWins ==
    pc = "done" =>
        LET M == {i \in 1..Len(content) : GoodMarker(content[i])}
        IN data.osu_file_format =
              IF M = {} THEN 14 ELSE content[SetMax(M)].f[1].v

\* A marker after a header sets the format.
C8_Witness ==
    /\ pc = "done"
    /\ Len(content) = 3
    /\ content[1] = VersionLine(IntTok(12))
    /\ content[2] = HeaderLine("General")
    /\ content[3] = VersionLine(IntTok(9))
    /\ data.osu_file_format = 9

Qualifies(tp) == tp.uninherited /\ FloatPositive(tp.beat_length)

\* The chart has exactly one uninherited timing point, of beat length 500.
SingleUninherited500(tps) ==
    LET U == {i \in 1..Len(tps) : tps[i].uninherited}
    IN Cardinality(U) = 1 /\ \A i \in U : tps[i].beat_length = Fin(5000)

Bpm120 == [num |-> 120, den |-> 1]
BpmZero == [num |-> 0, den |-> 1]

\* C9 as stated: a single uninherited timing point of beat length 500
\* gives bpm 120.
C9_AsStated ==
    pc = "done" /\ SingleUninherited500(data.timing_points) => data.bpm = Bpm120

\* C9 (amended): a chart with a single uninherited timing point of beat
\* length 500 and at least one parsed hit object has bpm 120; with no hit
\* object its bpm stays 0.
C9_Bpm120 ==
    pc = "done" /\ SingleUninherited500(data.timing_points) =>
        data.bpm = IF data.hit_objects # <<>> THEN Bpm120 ELSE BpmZero

C9_Witness ==
    /\ pc = "done"
    /\ SingleUninherited500(data.timing_points)
    /\ Len(data.timing_points) = 2
    /\ data.hit_objects # <<>>
    /\ data.bpm = Bpm120

\* bpm is 60000 / beat length of the first qualifying point, 0 when none.
BpmIsFirstQualifying(d) ==
    LET tps == d.timing_points
        Q == {i \in 1..Len(tps) : Qualifies(tps[i])}
    IN IF Q = {} THEN d.bpm = BpmZero
       ELSE LET tp == tps[SetMin(Q)]
            IN /\ tp.beat_length.k = "fin"
               /\ d.bpm.num * tp.beat_length.v = 600000 * d.bpm.den

\* C10 as stated.
C10_AsStated == pc = "done" => BpmIsFirstQualifying(data)

\* C10 (amended): when at least one hit object was parsed, bpm is 60000
\* divided by the beat length of the first timing point in file order that
\* is uninherited and has beat length > 0, earlier points that do not
\* qualify being skipped and later ones never changing it, and 0 when no
\* point qualifies; when no hit object was parsed, bpm stays 0.
C10_BpmFirstQualifying ==
    pc = "done" =>
        IF data.hit_objects # <<>> THEN BpmIsFirstQualifying(data)
        ELSE data.bpm = BpmZero

\* A point that does not qualify, then one of 500, then one of 250.
C10_Witness ==
    /\ pc = "done"
    /\ data.hit_objects # <<>>
    /\ Len(data.timing_points) = 3
    /\ ~Qualifies(data.timing_points[1])
    /\ Qualifies(data.timing_points[2])
    /\ data.timing_points[2].beat_length = Fin(5000)
    /\ Qualifies(data.timing_points[3])
    /\ data.timing_points[3].beat_length = Fin(2500)
    /\ data.bpm = Bpm120

\* The four derived fields at their zero values.
DerivedZero(d) ==
    /\ d.total_length = 0 /\ d.hit_length = 0 /\ d.max_combo = 0
    /\ d.bpm = BpmZero

\* The lines of the text that stand in the named section and hold at least
\* n comma-separated fields.
LinesIn(sec, n) ==
    {i \in 1..Len(content) :
        /\ content[i].k = "csv" /\ Len(content[i].f) >= n
        /\ LastHeader(content, i - 1) = sec}

\* C11: the derived fields are computed exactly once in a parse, after the
\* last line was consumed and whatever section was active then; they are
\* computed from all the hit objects and all the timing points of the text;
\* with no hit object the computation does nothing and total_length,
\* hit_length, max_combo and bpm keep their zero values.
C11_DerivedOnce ==
    /\ [](pc # "done" => derived_runs = 0 /\ DerivedZero(data))
    /\ [](pc = "done" => derived_runs = 1)
    /\ [][derived_runs' # derived_runs
          => pos = Len(content) + 1 /\ pc' = "done"
             /\ current_section' = current_section]_vars
    /\ [](pc = "done" /\ data.hit_objects = <<>> => DerivedZero(data))
    /\ [](pc = "done" /\ data.hit_objects # <<>> =>
            /\ Len(data.hit_objects) = Cardinality(LinesIn("HitObjects", 5))
            /\ Len(data.timing_points) = Cardinality(LinesIn("TimingPoints", 2))
            /\ BpmIsFirstQualifying(data)
            /\ data.total_length >= 2000 + data.hit_objects[Len(data.hit_objects)].time)

\* The text ended in another section than HitObjects, with a timing point
\* after the hit objects, and the bpm comes from that point.
C11_Witness ==
    /\ pc = "done"
    /\ derived_runs = 1
    /\ current_section = "TimingPoints"
    /\ content[1] = HeaderLine("HitObjects")
    /\ Len(data.hit_objects) = 2
    /\ data.bpm = [num |-> 240, den |-> 1]

C14_ReparseEqual ==
    pc = "done" =>
        /\ outcome = "returned"
        /\ data = parse_content(content).data
        /\ warned = parse_content(content).warned
        /\ current_section = LastHeader(content, Len(content))

\* A text with no header of its own was parsed after a text that ended
\* inside [HitObjects] with an object, and nothing of either is left.
C14_Witness ==
    /\ pc = "done"
    /\ parsed_before = << <<HeaderLine("HitObjects"), ObjLine(1000, 1)>> >>
    /\ content = <<ObjLine(1000, 1)>>
    /\ data = DefaultData
    /\ current_section = ""

-----------------------------------------------------------------------------
(* Properties of the processor. *)

Terminal == ppc \in {"returned", "raised", "validated"}

\* Whether the archive holds a chart file that can be read.
HoldsReadableChart ==
    \E i \in 1..Len(archive.members) :
        Lower(archive.members[i].ext) = ".osu" /\ archive.members[i].readable

\* C2 as stated: the call fails with InvalidArchive only, and only for an
\* input that cannot be opened.  (An encrypted archive, which opens and
\* fails in the extraction, is left aside here.)
C2_AsStated ==
    ppc = "raised" /\ archive.container # "encrypted" =>
        err = "InvalidArchive" /\ archive.container = "corrupt"

\* C2 (amended): the call fails with InvalidArchive when the container is
\* not a valid zip, and with NoValidCharts when the archive opens and
\* extracts but no chart comes of it; an archive that opens, extracts and
\* yields a chart makes the call return, whatever else is wrong with it (an
\* unreadable member is passed over).  Any other error of the extraction
\* itself (an encrypted member) propagates out of the call as it is.
C2_FailsOnlyTyped ==
    Terminal =>
        CASE archive.container = "corrupt" -> ppc = "raised" /\ err = "InvalidArchive"
          [] archive.container = "encrypted" -> ppc = "raised" /\ err = "RuntimeError"
          [] OTHER ->
               IF HoldsReadableChart
               THEN ppc # "raised" /\ err = "" /\ ret.kind = "mapset"
               ELSE ppc = "raised" /\ err = "NoValidCharts"

\* An archive with a chart and an unreadable member makes the call return.
C2_Witness ==
    /\ ppc = "returned"
    /\ \E i \in 1..Len(archive.members) : ~archive.members[i].readable
    /\ Len(ret.beatmaps) = 2

C4_TempDirRemoved ==
    /\ Terminal => workdir = {} /\ ~tmp_exists
    /\ ppc \in {"extract", "walk", "check", "exit"} => tmp_exists

\* The call failed after members were extracted.
C4_Witness ==
    /\ ppc = "raised"
    /\ err = "NoValidCharts"
    /\ Len(archive.members) = 2
    /\ workdir = {}

\* C5: a corrupt container makes the call fail with InvalidArchive; no
\* record is returned and none was built.
C5_CorruptFails ==
    archive.container = "corrupt" =>
        /\ ppc \notin {"returned", "validated", "walk", "check"}
        /\ ret = NoMapset
        /\ mapset = NoMapset
        /\ ppc = "raised" => err = "InvalidArchive"

C5_Witness ==
    /\ ppc = "raised"
    /\ archive.container = "corrupt"
    /\ entry = "bytes"
    /\ Len(archive.members) = 1
    /\ err = "InvalidArchive"

\* C6: when the walk over the members has produced no chart, the call
\* fails with NoValidCharts and returns no record, whatever else the
\* archive holds.
C6_NoCharts ==
    /\ ppc = "exit" /\ mapset.kind = "mapset" =>
          (mapset.beatmaps = <<>> <=> err = "NoValidCharts")
    /\ ppc = "raised" => ret = NoMapset
    /\ Terminal /\ archive.container = "ok" /\ ~HoldsReadableChart =>
          ppc = "raised" /\ err = "NoValidCharts"

\* An archive of an audio file and a storyboard file, and no chart.
C6_Witness ==
    /\ ppc = "raised"
    /\ err = "NoValidCharts"
    /\ Len(archive.members) = 2
    /\ \A i \in 1..2 : archive.members[i].ext \in {".mp3", ".txt"}
-----------------------------------------------------------------------------
(* Properties of validate_osz. *)

One(b) == IF b THEN 1 ELSE 0

\* Chart i has the (mode, version) of a chart before it.
DupAt(ms, i) ==
    \E k \in 1..(i - 1) :
        /\ ms.beatmaps[k].mode = ms.beatmaps[i].mode
        /\ ms.beatmaps[k].version = ms.beatmaps[i].version

\* Chart i names an audio file that no audio member matches.
AudioMissingAt(ms, i) ==
    /\ ms.beatmaps[i].audio_filename # ""
    /\ \A j \in 1..Len(ms.files) :
          ms.files[j].file_type = "audio" =>
              Lower(ms.files[j].filename) # Lower(ms.beatmaps[i].audio_filename)

HasAudioMember(ms) == \E j \in 1..Len(ms.files) : ms.files[j].file_type = "audio"

\* The number of rules a mapset with a chart violates, chart by chart.
NumViolations(ms) ==
    LET I == 1..Len(ms.beatmaps)
    IN One(IsBlank(ms.title)) + One(IsBlank(ms.artist)) + One(IsBlank(ms.creator))
       + Cardinality({i \in I : DupAt(ms, i)})
       + Cardinality({i \in I : IsBlank(ms.beatmaps[i].version)})
       + Cardinality({i \in I : IsBlank(ms.beatmaps[i].creator)})
       + Cardinality({i \in I : ms.beatmaps[i].hit_objects = <<>>})
       + Cardinality({i \in I : AudioMissingAt(ms, i)})
       + One(~HasAudioMember(ms))

DupMsg(b) ==
    "Duplicate difficulty version: " \o b.version \o " (mode " \o ToString(b.mode) \o ")"

\* C15: validate_osz gives all the problems of a mapset that has a chart,
\* one for every rule broken (blank title, artist, creator; every chart
\* that repeats a (mode, version), has a blank version, a blank creator, no
\* hit object, or names an audio file no audio member matches; no audio
\* member at all); the list is empty exactly when no rule is broken; the
\* call ends with a list for every mapset and leaves the mapset as it was.
C15_ValidateAggregates ==
    /\ [](ppc = "validated" /\ ret.beatmaps # <<>> =>
            LET P == Range(problems)
                I == 1..Len(ret.beatmaps)
            IN /\ Len(problems) = NumViolations(ret)
               /\ (problems = <<>>) <=>
                     /\ ~IsBlank(ret.title) /\ ~IsBlank(ret.artist) /\ ~IsBlank(ret.creator)
                     /\ HasAudioMember(ret)
                     /\ \A i \in I :
                           /\ ~DupAt(ret, i) /\ ~AudioMissingAt(ret, i)
                           /\ ~IsBlank(ret.beatmaps[i].version)
                           /\ ~IsBlank(ret.beatmaps[i].creator)
                           /\ ret.beatmaps[i].hit_objects # <<>>
               /\ IsBlank(ret.title) <=> "Mapset title is required" \in P
               /\ IsBlank(ret.artist) <=> "Artist name is required" \in P
               /\ IsBlank(ret.creator) <=> "Creator name is required" \in P
               /\ (\E i \in I : IsBlank(ret.beatmaps[i].version))
                     <=> "Beatmap version/difficulty name is required" \in P
               /\ (\E i \in I : IsBlank(ret.beatmaps[i].creator))
                     <=> "Beatmap creator is required" \in P
               /\ \A i \in I :
                     /\ DupAt(ret, i) => DupMsg(ret.beatmaps[i]) \in P
                     /\ ret.beatmaps[i].hit_objects = <<>> =>
                           ("No hit objects found in difficulty: "
                               \o ret.beatmaps[i].version) \in P
                     /\ AudioMissingAt(ret, i) =>
                           ("Audio file not found: "
                               \o ret.beatmaps[i].audio_filename) \in P
               /\ ~HasAudioMember(ret) <=> "At least one audio file is required" \in P)
    /\ [](ppc = "validated" => validated /\ err = "" /\ DOMAIN problems = 1..Len(problems))
    /\ [][ppc = "returned" => ppc' = "validated" /\ ret' = ret]_vars

\* A mapset that breaks six rules at once, in the mapset and in two charts.
C15_Witness ==
    /\ ppc = "validated"
    /\ IsBlank(ret.title)
    /\ Len(ret.beatmaps) = 2
    /\ IsBlank(ret.beatmaps[1].version)
    /\ ret.beatmaps[2].hit_objects = <<>>
    /\ ret.files = <<>>
    /\ Len(problems) = 6

\* C17: validate_osz reports one duplicate-difficulty problem for every
\* chart whose (mode, version) is that of a chart before it: two charts of
\* one pair give one, k charts of one pair give k - 1, and charts that
\* differ in mode or in version give none.
C17_DuplicatePerRepeat ==
    ppc = "validated" /\ ret.beatmaps # <<>> =>
        LET I == 1..Len(ret.beatmaps)
            DupProblems(b) == {j \in 1..Len(problems) : problems[j] = DupMsg(b)}
            SamePair(b) == {i \in I : /\ ret.beatmaps[i].mode = b.mode
                                      /\ ret.beatmaps[i].version = b.version}
        IN \A i \in I :
              Cardinality(DupProblems(ret.beatmaps[i]))
                  = Cardinality(SamePair(ret.beatmaps[i])) - 1

\* Three charts of mode 0 and version Normal: two problems for the pair.
C17_Witness ==
    /\ ppc = "validated"
    /\ Len(ret.beatmaps) = 3
    /\ \A i \in 1..3 : ret.beatmaps[i].mode = 0 /\ ret.beatmaps[i].version = "Normal"
    /\ Cardinality({j \in 1..Len(problems) :
                      problems[j] = "Duplicate difficulty version: Normal (mode 0)"}) = 2

\* The archive holds no readable file of an audio type.
NoAudioMember ==
    \A i \in 1..Len(archive.members) :
        archive.members[i].readable => _get_file_type(archive.members[i].ext) # "audio"

\* C16: an archive with a chart file and no audio member is processed
\* without failure, and validate_osz on the record gives a list that is not
\* empty and holds the problem that an audio file is required, whether or
\* not a chart names an audio file.
C16_NoAudioReported ==
    archive.container = "ok" /\ HoldsReadableChart /\ NoAudioMember =>
        /\ ppc # "raised"
        /\ ppc \in {"returned", "validated"} => ret.kind = "mapset" /\ err = ""
        /\ ppc = "validated" =>
              /\ problems # <<>>
              /\ "At least one audio file is required" \in Range(problems)

\* The only chart of the archive names no audio file.
C16_Witness ==
    /\ ppc = "validated"
    /\ Len(archive.members) = 1
    /\ archive.members[1].path = "hard.osu"
    /\ Len(ret.beatmaps) = 1
    /\ ret.beatmaps[1].audio_filename = ""
    /\ "At least one audio file is required" \in Range(problems)

-----------------------------------------------------------------------------
(* Properties of the record that process returns. *)

Returned == ppc \in {"returned", "validated"}

\* The place of the file of the given name in a sequence of records with a
\* filename, 0 when it is not there.
PlaceOf(seq, filename) ==
    LET J == {j \in 1..Len(seq) : seq[j].filename = filename}
    IN IF J = {} THEN 0 ELSE SetMin(J)

\* C18 as stated: for every chart of the result exactly one member of type
\* osu has the chart's hash, also when two chart files hold the same bytes,
\* and the chart's filename is the path of that member.
C18_AsStated ==
    Returned =>
        \A i \in 1..Len(ret.beatmaps) :
            LET J == {j \in 1..Len(ret.files) :
                         /\ ret.files[j].file_type = "osu"
                         /\ ret.files[j].md5_hash = ret.beatmaps[i].md5}
            IN /\ Cardinality(J) = 1
               /\ \A j \in J : ret.files[j].filename = ret.beatmaps[i].filename

\* C19 as stated: the files of the result stand in the order of the
\* archive's members, and so do the charts.
C19_AsStated ==
    Returned =>
        \A i, j \in 1..Len(archive.members) :
            LET a == archive.members[i].path
                b == archive.members[j].path
            IN i < j =>
                 /\ PlaceOf(ret.files, a) # 0 /\ PlaceOf(ret.files, b) # 0
                       => PlaceOf(ret.files, a) < PlaceOf(ret.files, b)
                 /\ PlaceOf(ret.beatmaps, a) # 0 /\ PlaceOf(ret.beatmaps, b) # 0
                       => PlaceOf(ret.beatmaps, a) < PlaceOf(ret.beatmaps, b)

\* C20: the title, artist, creator, source and tags of the returned mapset
\* are those of the first chart of the sequence of charts and of no later
\* one; title and artist are the plain value when it is not empty and the
\* unicode value otherwise; a field the first chart leaves empty stays
\* empty whatever a later chart holds.
C20_FillFromFirst ==
    Returned =>
        LET first_map == ret.beatmaps[1]
        IN /\ ret.title = IF first_map.title # "" THEN first_map.title
                          ELSE first_map.title_unicode
           /\ ret.artist = IF first_map.artist # "" THEN first_map.artist
                           ELSE first_map.artist_unicode
           /\ ret.creator = first_map.creator
           /\ ret.source = first_map.source
           /\ ret.tags = first_map.tags

\* The first chart has a unicode title only and no artist or creator, the
\* second has them: the title is the unicode one, artist and creator stay
\* empty.
C20_Witness ==
    /\ ppc = "returned"
    /\ Len(ret.beatmaps) = 2
    /\ ret.beatmaps[1].title = "" /\ ret.beatmaps[1].title_unicode = "Tu"
    /\ ret.beatmaps[2].artist = "Ar" /\ ret.beatmaps[2].creator = "Cr"
    /\ ret.title = "Tu"
    /\ ret.artist = "" /\ ret.creator = ""

-----------------------------------------------------------------------------
(* Properties of the handlers of single lines. *)

\* Whether a field reads as a number, and the number cut to an integer.
IsNumber(tok) == tok.t \in {"int", "dec"} /\ ~tok.q
IsInteger(tok) == tok.t = "int" /\ ~tok.q
Truncated(tok) ==
    IF tok.t = "int" THEN tok.v
    ELSE IF tok.v >= 0 THEN tok.v \div 10 ELSE 0 - ((0 - tok.v) \div 10)

\* The value a timing point takes for the field at place i of the line f,
\* default when the line is shorter.
FieldOr(f, i, default) == IF Len(f) >= i THEN f[i].v ELSE default

\* A line of the TimingPoints section is being handled.
AtTimingLine ==
    pc = "line" /\ current_section = "TimingPoints" /\ content[pos].k = "csv"

\* C21: a TimingPoints line of exactly two fields, an offset and a beat
\* length, adds a timing point with meter 4, sample_set 0, sample_index 0,
\* volume 100, uninherited true, effects 0 and the offset cut to an
\* integer; a later field that is present replaces its own default only;
\* a line of fewer than two fields adds no timing point.
C21_TimingDefaults ==
    /\ [][AtTimingLine /\ Len(content[pos].f) < 2 => data' = data]_vars
    /\ [][AtTimingLine /\ Len(content[pos].f) = 2
          /\ IsNumber(content[pos].f[1]) /\ IsNumber(content[pos].f[2])
          => data'.timing_points = Append(data.timing_points,
                [time |-> Truncated(content[pos].f[1]),
                 beat_length |-> PyFloat(content[pos].f[2]).x,
                 meter |-> 4, sample_set |-> 0, sample_index |-> 0,
                 volume |-> 100, uninherited |-> TRUE, effects |-> 0])]_vars
    /\ [][AtTimingLine /\ Len(content[pos].f) > 2
          /\ IsNumber(content[pos].f[1]) /\ IsNumber(content[pos].f[2])
          /\ (\A i \in (3..Len(content[pos].f)) \ {7} : IsInteger(content[pos].f[i]))
          => LET f == content[pos].f
             IN data'.timing_points = Append(data.timing_points,
                   [time |-> Truncated(f[1]),
                    beat_length |-> PyFloat(f[2]).x,
                    meter |-> FieldOr(f, 3, 4),
                    sample_set |-> FieldOr(f, 4, 0),
                    sample_index |-> FieldOr(f, 5, 0),
                    volume |-> FieldOr(f, 6, 100),
                    uninherited |-> IF Len(f) >= 7 THEN f[7].s = "1" ELSE TRUE,
                    effects |-> FieldOr(f, 8, 0)])]_vars

\* A line of two fields with a fraction in the offset, after a line of one
\* field and before a line of three.
C21_Witness ==
    /\ pc = "done"
    /\ content = <<HeaderLine("TimingPoints"),
                   CsvLine(<<IntTok(1000)>>),
                   CsvLine(<<DecTok(10007, "1000.7"), DecTok(3333, "333.3")>>),
                   CsvLine(<<IntTok(0), IntTok(500), IntTok(3)>>)>>
    /\ Len(data.timing_points) = 2
    /\ data.timing_points[1].time = 1000
    /\ data.timing_points[1].volume = 100
    /\ data.timing_points[2].meter = 3
    /\ data.timing_points[2].volume = 100

\* A line that makes a hit object: five fields or more, the first five
\* integers.
MakesObject(line) ==
    /\ Len(line.f) >= 5
    /\ \A i \in 1..5 : IsInteger(line.f[i])

\* C22: a HitObjects line adds a hit object exactly when it has five
\* fields or more and the first five read as integers; a line of fewer
\* than five fields is dropped without an exception and is not in the
\* sequence, and the objects of the lines before and after it are there in
\* the order of the file.
C22_HitObjectLines ==
    pc = "done" /\ Len(content) >= 1 /\ content[1] = HeaderLine("HitObjects") =>
        LET made == SelectSeq(Tail(content), MakesObject)
        IN /\ outcome = "returned" /\ warned = {}
           /\ Len(data.hit_objects) = Len(made)
           /\ \A i \in 1..Len(made) :
                 /\ data.hit_objects[i].x = made[i].f[1].v
                 /\ data.hit_objects[i].y = made[i].f[2].v
                 /\ data.hit_objects[i].time = made[i].f[3].v
                 /\ data.hit_objects[i].type = made[i].f[4].v
                 /\ data.hit_objects[i].hit_sound = made[i].f[5].v

\* A line of four fields between two objects, the later object first.
C22_Witness ==
    /\ pc = "done"
    /\ content = <<HeaderLine("HitObjects"), ObjLine(3000, 2),
                   CsvLine(<<IntTok(256), IntTok(192), IntTok(2000), IntTok(1)>>),
                   ObjLine(1000, 1)>>
    /\ Len(data.hit_objects) = 2
    /\ data.hit_objects[1].time = 3000
    /\ data.hit_objects[2].time = 1000

\* The keys of the four key-value sections that take a number, with the
\* field each sets; TRUE for a key that takes a float.
NumericKeys ==
    [General |->
        [AudioLeadIn |-> <<"audio_lead_in", FALSE>>,
         PreviewTime |-> <<"preview_time", FALSE>>,
         Countdown |-> <<"countdown", FALSE>>,
         StackLeniency |-> <<"stack_leniency", TRUE>>,
         Mode |-> <<"mode", FALSE>>,
         CountdownOffset |-> <<"countdown_offset", FALSE>>],
     Editor |->
        [DistanceSpacing |-> <<"distance_spacing", TRUE>>,
         BeatDivisor |-> <<"beat_divisor", FALSE>>,
         GridSize |-> <<"grid_size", FALSE>>,
         TimelineZoom |-> <<"timeline_zoom", TRUE>>],
     Metadata |->
        [BeatmapID |-> <<"beatmap_id", FALSE>>,
         BeatmapSetID |-> <<"beatmapset_id", FALSE>>],
     Difficulty |->
        [HPDrainRate |-> <<"hp_drain_rate", TRUE>>,
         CircleSize |-> <<"circle_size", TRUE>>,
         OverallDifficulty |-> <<"overall_difficulty", TRUE>>,
         ApproachRate |-> <<"approach_rate", TRUE>>,
         SliderMultiplier |-> <<"slider_multiplier", TRUE>>,
         SliderTickRate |-> <<"slider_tick_rate", TRUE>>]]

\* The keys of the four sections that take a text or a flag, and Bookmarks.
OtherKeys ==
    [General |-> {"AudioFilename", "AudioHash", "SampleSet", "LetterboxInBreaks",
                  "StoryFireInFront", "UseSkinSprites", "AlwaysShowPlayfield",
                  "OverlayPosition", "SkinPreference", "EpilepsyWarning",
                  "SpecialStyle", "WidescreenStoryboard", "SamplesMatchPlaybackRate"},
     Editor |-> {"Bookmarks"},
     Metadata |-> {"Title", "TitleUnicode", "Artist", "ArtistUnicode", "Creator",
                   "Version", "Source", "Tags"},
     Difficulty |-> {}]

\* A key-value line of one of the four sections is being handled.
AtKeyLine ==
    /\ pc = "line" /\ current_section \in DOMAIN NumericKeys
    /\ content[pos].k = "kv"

\* The value of the line reads as the number its key takes.
Converts(toks, float) ==
    Len(toks) = 1 /\ (IF float THEN toks[1].t \in {"int", "dec", "inf", "nan"}
                      ELSE toks[1].t = "int") /\ ~toks[1].q

\* C28: in General, Editor, Metadata and Difficulty a known key whose value
\* does not convert to its number leaves the field as it was before the
\* line (the default or what an earlier line set) and changes no other
\* field; a value that converts changes that one field only; an unknown
\* key changes nothing; no line stops the lines after it.
C28_FailedConversionKeepsField ==
    /\ [][AtKeyLine /\ content[pos].name \in DOMAIN NumericKeys[current_section]
          => LET k == NumericKeys[current_section][content[pos].name]
             IN IF Converts(content[pos].f, k[2])
                THEN /\ \A g \in (DOMAIN data) \ {k[1]} : data'[g] = data[g]
                     /\ data'[k[1]] = IF k[2] THEN PyFloat(content[pos].f[1]).x
                                      ELSE content[pos].f[1].v
                ELSE data' = data]_vars
    /\ [][AtKeyLine /\ content[pos].name = "Bookmarks"
          /\ (\E i \in 1..Len(content[pos].f) : ~IsInteger(content[pos].f[i]))
          => data' = data]_vars
    /\ [][AtKeyLine
          /\ content[pos].name \notin DOMAIN NumericKeys[current_section]
          /\ content[pos].name \notin OtherKeys[current_section]
          => data' = data]_vars
    /\ [][AtKeyLine => pc' = (IF pos = Len(content) THEN "derive" ELSE "line")
                       /\ pos' = pos + 1 /\ outcome' = outcome
                       /\ warned' = warned]_vars

\* A mode was set, a second Mode line did not convert, and the line after
\* it was applied.
C28_Witness ==
    /\ pc = "done"
    /\ content = <<HeaderLine("General"), KvLine("Mode", <<IntTok(1)>>),
                   KvLine("Mode", <<StrTok("x")>>),
                   KvLine("PreviewTime", <<IntTok(5000)>>)>>
    /\ data.mode = 1
    /\ data.preview_time = 5000
    /\ warned = {}

\* C30: a record that parse_content returned is not changed by a later
\* call on the same parser: every call works on a record of its own, so an
\* earlier result keeps the fields and the sequences it was returned with.
C30_ReturnedRecordsKept ==
    /\ \A i \in 1..Len(returned) :
          returned[i].obj = data_obj => data = returned[i].value
    /\ \A i, j \in 1..Len(returned) : i # j => returned[i].obj # returned[j].obj
    /\ pc \in {"line", "derive"} =>
          \A i \in 1..Len(returned) : returned[i].obj # data_obj

\* A first call returned a record with a hit object, and a second call on
\* the same parser returned an empty one.
C30_Witness ==
    /\ pc = "done"
    /\ Len(returned) = 2
    /\ Len(returned[1].value.hit_objects) = 1
    /\ returned[2].value = DefaultData
    /\ data = DefaultData

-----------------------------------------------------------------------------
(* Further properties of validate_osz. *)

AudioMsg(name) == "Audio file not found: " \o name

\* C25: validate_osz gives one missing-audio problem, naming the file, for
\* each chart that names an audio file and has no member of type audio whose
\* path is that name ignoring case, and for no other chart: a member of that
\* name and another type is no match, and a chart that names no audio file
\* gets no such problem.
C25_MissingAudioPerChart ==
    ppc = "validated" /\ ret.beatmaps # <<>> =>
        LET I == 1..Len(ret.beatmaps)
            Missing(name) == {i \in I : /\ AudioMissingAt(ret, i)
                                        /\ ret.beatmaps[i].audio_filename = name}
            Reported(name) == {j \in 1..Len(problems) : problems[j] = AudioMsg(name)}
        IN /\ \A i \in I :
                 LET name == ret.beatmaps[i].audio_filename
                 IN Cardinality(Reported(name)) = Cardinality(Missing(name))
           /\ AudioMsg("") \notin Range(problems)

\* Three charts and the members bg.jpg (an image) and Song.mp3 (audio): the
\* chart that names bg.jpg gets the problem, the chart that names SONG.MP3
\* and the chart that names no file get none.
C25_Witness ==
    /\ ppc = "validated"
    /\ Len(ret.beatmaps) = 3
    /\ ret.beatmaps[1].audio_filename = ""
    /\ ret.beatmaps[2].audio_filename = "bg.jpg"
    /\ ret.beatmaps[3].audio_filename = "SONG.MP3"
    /\ Len(ret.files) = 2
    /\ ret.files[1].filename = "bg.jpg" /\ ret.files[1].file_type = "image"
    /\ ret.files[2].filename = "Song.mp3" /\ ret.files[2].file_type = "audio"
    /\ AudioMsg("bg.jpg") \in Range(problems)
    /\ AudioMsg("SONG.MP3") \notin Range(problems)

\* C26: for a mapset with no chart validate_osz returns as soon as it has
\* added the problem that a chart is required: that problem is the last of
\* the list, before it come only the problems of the title, the artist and
\* the creator that apply, and the list holds no problem of a chart and none
\* of the audio members, with or without an audio member.
C26_NoChartsReturnsEarly ==
    ppc = "validated" /\ ret.beatmaps = <<>> =>
        /\ problems =
              (IF IsBlank(ret.title) THEN <<"Mapset title is required">> ELSE <<>>)
              \o (IF IsBlank(ret.artist) THEN <<"Artist name is required">> ELSE <<>>)
              \o (IF IsBlank(ret.creator) THEN <<"Creator name is required">> ELSE <<>>)
              \o <<"At least one beatmap is required">>
        /\ problems[Len(problems)] = "At least one beatmap is required"
        /\ "At least one audio file is required" \notin Range(problems)

\* No chart, no member and a blank title: two problems, the chart one last.
C26_Witness ==
    /\ ppc = "validated"
    /\ ret.beatmaps = <<>>
    /\ ret.files = <<>>
    /\ problems = <<"Mapset title is required", "At least one beatmap is required">>

-----------------------------------------------------------------------------
(* Properties of the type of a file. *)

\* The type that goes with an extension written in lower case.
TypeOfExtension(ext) ==
    CASE ext = ".osu" -> "osu"
      [] ext \in {".mp3", ".ogg", ".wav", ".m4a"} -> "audio"
      [] ext \in {".jpg", ".jpeg", ".png", ".gif", ".bmp"} -> "image"
      [] ext \in {".avi", ".flv", ".mpg", ".wmv", ".mp4", ".m4v"} -> "video"
      [] ext \in {".osb", ".txt"} -> "storyboard"
      [] OTHER -> "other"

\* The members of the archive that the file of the given name was read from.
MembersNamed(filename) ==
    {m \in Range(archive.members) : m.path = filename}

\* C27: the type of a file of the returned record is given by the last
\* extension of its name alone, whatever the case of its letters: .osu is a
\* chart, .mp3 .ogg .wav .m4a audio, .jpg .jpeg .png .gif .bmp image, .avi
\* .flv .mpg .wmv .mp4 .m4v video, .osb .txt storyboard, anything else and a
\* name without extension other; two files of one extension have one type,
\* whatever their bytes and their directory.
C27_TypeByExtension ==
    Returned /\ ret.kind = "mapset" =>
        /\ \A i \in 1..Len(ret.files) : \A m \in MembersNamed(ret.files[i].filename) :
              ret.files[i].file_type = TypeOfExtension(Lower(m.ext))
        /\ \A i, j \in 1..Len(ret.files) :
              \A m \in MembersNamed(ret.files[i].filename) :
                 \A n \in MembersNamed(ret.files[j].filename) :
                    Lower(m.ext) = Lower(n.ext) =>
                        ret.files[i].file_type = ret.files[j].file_type

\* a.mp3 at the top and sb/b.MP3, of other bytes, are both audio.
C27_Witness ==
    /\ Returned
    /\ \E i, j \in 1..Len(ret.files) :
          /\ ret.files[i].filename = "a.mp3" /\ ret.files[i].file_type = "audio"
          /\ ret.files[j].filename = "sb/b.MP3" /\ ret.files[j].file_type = "audio"
          /\ ret.files[i].md5_hash # ret.files[j].md5_hash

-----------------------------------------------------------------------------
(* Properties of the two ways into the processor. *)

\* The file of the record was a member of the archive, with these bytes.
FromArchive(f) ==
    \E m \in Range(archive.members) :
        m.path = f.filename /\ Md5(m.content) = f.md5_hash

\* C29 as stated: every file of the record that process_osz_bytes returns
\* is a regular file the archive held, none is a file the processor put in
\* the working area itself, as it is for process_osz_file.
C29_AsStated ==
    Returned /\ ret.kind = "mapset" =>
        \A i \in 1..Len(ret.files) : FromArchive(ret.files[i])

-----------------------------------------------------------------------------
(* Properties of calls in flight at once. *)

InArea == {"extract", "walk", "check", "exit"}

\* What the call of c puts in its directory.
OwnArea(c) ==
    Extracted(calls[c].archive.members, Len(calls[c].archive.members))
        \cup (IF calls[c].entry = "bytes" THEN {TempOszOf(calls[c].archive)} ELSE {})

\* C23: calls in flight at once never share a working directory: each has
\* a directory of its own for as long as it works, which holds nothing but
\* what that call put there and loses nothing while the call reads, so the
\* files and charts of each result are those of the archive given to that
\* call, all of them.
C23_IsolatedAreas ==
    \A c \in Callers :
        LET me == calls[c]
        IN /\ me.ppc \in InArea =>
                 /\ areas[me.dir].exists
                 /\ areas[me.dir].files \subseteq OwnArea(c)
                 /\ \A d \in Callers \ {c} :
                       calls[d].ppc \in InArea => calls[d].dir # me.dir
           /\ me.ppc \in {"walk", "check"} =>
                 /\ areas[me.dir].files = OwnArea(c)
                 /\ me.todo \subseteq areas[me.dir].files
           /\ me.ppc = "returned" =>
                 /\ \A i \in 1..Len(me.ret.files) :
                       \E e \in OwnArea(c) :
                          /\ e.isfile /\ e.path = me.ret.files[i].filename
                          /\ Md5(e.content) = me.ret.files[i].md5_hash
                 /\ \A e \in OwnArea(c) :
                       e.isfile /\ e.readable =>
                          \E i \in 1..Len(me.ret.files) :
                             me.ret.files[i].filename = e.path
                 /\ \A i \in 1..Len(me.ret.beatmaps) :
                       \E m \in Range(me.archive.members) :
                          /\ m.path = me.ret.beatmaps[i].filename
                          /\ Md5(m.content) = me.ret.beatmaps[i].md5
                 /\ Len(me.ret.beatmaps) =
                       Cardinality({m \in Range(me.archive.members) :
                                       _get_file_type(m.ext) = "osu"})

\* The call of c1 has returned and its directory is gone, while the call of
\* c2, on another archive, is in the middle of its walk in another directory.
C23_Witness ==
    /\ calls["c1"].ppc = "returned"
    /\ Len(calls["c1"].ret.files) = 3
    /\ ~areas[calls["c1"].dir].exists
    /\ calls["c2"].ppc = "walk"
    /\ calls["c2"].dir # calls["c1"].dir
    /\ calls["c2"].archive.bytes # calls["c1"].archive.bytes
    /\ Len(calls["c2"].mapset.files) = 1
    /\ calls["c2"].todo # {}

=============================================================================
